---------------------------- MODULE Spec2Model ----------------------------
(***************************************************************************)
(* KodiScript (TypeScript): the parsed-program cache, the tree-walking     *)
(* interpreter and the execute() driver, as state machines.                *)
(*                                                                         *)
(*   SpecCache   get / set / clear on one ASTCache                         *)
(*   SpecInterp  one Interpreter per program: configured, then run once    *)
(*   SpecReuse   one Interpreter run several times, with limits and time   *)
(*   SpecExec    KodiScriptBuilder.execute() over the default cache        *)
(***************************************************************************)
EXTENDS Integers, Sequences, FiniteSets, TLC

VARIABLES
  capacity,   \* ASTCache.capacity
  cache,      \* ASTCache.cache: the Map's entries in insertion order, oldest first
  recency,    \* history: the keys held, by last successful get or set, oldest first
  live,       \* history: per source, the program last set and not since evicted,
              \* replaced under its key or cleared (Undefined: none)
  lastOp,     \* history: the last cache call, what it returned and what it evicted
  variables,  \* Interpreter.variables
  closures,   \* the closure Maps of the FunctionValue objects, in order of creation
  output,     \* Interpreter.output
  opCount,    \* Interpreter.opCount
  maxOps,     \* Interpreter.maxOps
  deadline,   \* Interpreter.deadline
  now,        \* Date.now()
  runs,       \* history: the calls of run on this Interpreter
  last,       \* history: the last run, how it ended and what happened in it
  executed    \* history: the last execute(), what it returned or threw

cacheVars == <<capacity, cache, recency, live, lastOp>>

interpVars == <<variables, closures, output, opCount, maxOps, deadline, now, runs, last>>

execVars == <<executed>>

vars == <<capacity, cache, recency, live, lastOp,
          variables, closures, output, opCount, maxOps, deadline, now, runs, last, executed>>

(***************************************************************************)
(* Bounds of the model.                                                    *)
(***************************************************************************)
MaxCapacity == 2

(***************************************************************************)
(* Text.  A source text is a sequence of one-character strings.            *)
(***************************************************************************)
Ascii ==
  <<" ", "!", "\"", "#", "$", "%", "&", "'", "(", ")", "*", "+", ",", "-", ".", "/",
    "0", "1", "2", "3", "4", "5", "6", "7", "8", "9", ":", ";", "<", "=", ">", "?",
    "@", "A", "B", "C", "D", "E", "F", "G", "H", "I", "J", "K", "L", "M", "N", "O",
    "P", "Q", "R", "S", "T", "U", "V", "W", "X", "Y", "Z", "[", "\\", "]", "^", "_",
    "BACKTICK", "a", "b", "c", "d", "e", "f", "g", "h", "i", "j", "k", "l", "m", "n", "o",
    "p", "q", "r", "s", "t", "u", "v", "w", "x", "y", "z", "{", "|", "}", "~">>

\* String.prototype.charCodeAt for the printable ASCII characters (the backtick
\* is named, not written)
CharCode(c) == 31 + (CHOOSE i \in 1..Len(Ascii) : Ascii[i] = c)

(***************************************************************************)
(* simpleHash: djb2 with xor over 32-bit integers.  A 32-bit value is kept *)
(* as two 16-bit halves, so that no product leaves the integers TLC has.   *)
(***************************************************************************)
Half == 65536

RECURSIVE Xor(_, _)
Xor(a, b) ==
  IF a = 0 THEN b
  ELSE IF b = 0 THEN a
  ELSE (((a % 2) + (b % 2)) % 2) + 2 * Xor(a \div 2, b \div 2)

\* hash = ((hash << 5) + hash) ^ str.charCodeAt(i), as a 32-bit integer
HashStep(h, code) ==
  LET lo33 == h.lo * 33
      hi33 == (h.hi * 33) + (lo33 \div Half)
  IN  [hi |-> hi33 % Half, lo |-> Xor(lo33 % Half, code)]

RECURSIVE HashFrom(_, _, _)
HashFrom(h, str, i) ==
  IF i > Len(str) THEN h ELSE HashFrom(HashStep(h, CharCode(str[i])), str, i + 1)

HexDigits == <<"0", "1", "2", "3", "4", "5", "6", "7", "8", "9", "a", "b", "c", "d", "e", "f">>

\* four hexadecimal digits of a 16-bit value, leading zeros kept
Hex16(n) ==
  HexDigits[((n \div 4096) % 16) + 1] \o HexDigits[((n \div 256) % 16) + 1]
    \o HexDigits[((n \div 16) % 16) + 1] \o HexDigits[(n % 16) + 1]

\* (hash >>> 0).toString(16).padStart(8, '0')
simpleHash(str) ==
  LET h == HashFrom([hi |-> 5381 \div Half, lo |-> 5381 % Half], str, 1)
  IN  Hex16(h.hi) \o Hex16(h.lo)

\* ASTCache.hash
Hash(source) == simpleHash(source)

(***************************************************************************)
(* Sequences as the Map's ordered entries.                                 *)
(***************************************************************************)
RECURSIVE Without(_, _)
\* Map.delete(key): the entries without the one under key, order kept
Without(entries, key) ==
  IF entries = <<>> THEN <<>>
  ELSE IF Head(entries).key = key THEN Without(Tail(entries), key)
  ELSE <<Head(entries)>> \o Without(Tail(entries), key)

HasKey(entries, key) == \E i \in 1..Len(entries) : entries[i].key = key

\* Map.get(key), for a key the Map holds
EntryOf(entries, key) == entries[CHOOSE i \in 1..Len(entries) : entries[i].key = key]

RECURSIVE SeqWithout(_, _)
SeqWithout(s, x) ==
  IF s = <<>> THEN <<>>
  ELSE IF Head(s) = x THEN SeqWithout(Tail(s), x)
  ELSE <<Head(s)>> \o SeqWithout(Tail(s), x)


(***************************************************************************)
(* AST nodes (ast.ts): records tagged by type.                             *)
(***************************************************************************)
NullNode == [type |-> "null"]   \* a null elseBranch or return value
\* a literal with a fractional part keeps its significant fraction digits
NumberLiteral(n) == [type |-> "NumberLiteral", value |-> n, fraction |-> <<>>]
StringLiteral(str) == [type |-> "StringLiteral", value |-> str]
BooleanLiteral(b) == [type |-> "BooleanLiteral", value |-> b]
NullLiteral == [type |-> "NullLiteral"]
Identifier(name) == [type |-> "Identifier", name |-> name]
BinaryExpr(op, l, r) == [type |-> "BinaryExpr", operator |-> op, left |-> l, right |-> r]
UnaryExpr(op, e) == [type |-> "UnaryExpr", operator |-> op, operand |-> e]
CallExpr(callee, args) == [type |-> "CallExpr", callee |-> callee, args |-> args]
MemberExpr(obj, property) == [type |-> "MemberExpr", object |-> obj, property |-> property]
SafeMemberExpr(obj, property) ==
  [type |-> "SafeMemberExpr", object |-> obj, property |-> property]
ElvisExpr(l, r) == [type |-> "ElvisExpr", left |-> l, right |-> r]
ArrayLiteral(elements) == [type |-> "ArrayLiteral", elements |-> elements]
ObjectLiteral(properties) == [type |-> "ObjectLiteral", properties |-> properties]
IndexExpr(obj, index) == [type |-> "IndexExpr", object |-> obj, index |-> index]
BlockStatement(stmts) == [type |-> "BlockStatement", statements |-> stmts]
FunctionLiteral(parameters, body) ==
  [type |-> "FunctionLiteral", parameters |-> parameters, body |-> body]
LetStatement(name, e) == [type |-> "LetStatement", name |-> name, value |-> e]
AssignmentStatement(name, e) == [type |-> "AssignmentStatement", name |-> name, value |-> e]
IfStatement(c, t, e) ==
  [type |-> "IfStatement", condition |-> c, thenBranch |-> t, elseBranch |-> e]
ForStatement(variable, iterable, body) ==
  [type |-> "ForStatement", variable |-> variable, iterable |-> iterable, body |-> body]
ReturnStatement(e) == [type |-> "ReturnStatement", value |-> e]
ExpressionStatement(e) == [type |-> "ExpressionStatement", expression |-> e]
Program(stmts) == [type |-> "Program", statements |-> stmts]

(***************************************************************************)
(* Lexer (lexer.ts).  The Lexer's fields pos, line and column are the      *)
(* record lx, pos counting from 1; a Token's value is kept as the sequence *)
(* of its characters.  A result carries err, the message of the Error      *)
(* thrown ("": none).                                                      *)
(***************************************************************************)
KEYWORDS ==
  ("let" :> "LET") @@ ("if" :> "IF") @@ ("else" :> "ELSE") @@ ("return" :> "RETURN")
    @@ ("true" :> "TRUE") @@ ("false" :> "FALSE") @@ ("null" :> "NULL")
    @@ ("and" :> "AND") @@ ("or" :> "OR") @@ ("not" :> "NOT")

\* the cases of nextToken's switch that return at once
Delimiters ==
  ("+" :> "PLUS") @@ ("-" :> "MINUS") @@ ("*" :> "STAR") @@ ("/" :> "SLASH")
    @@ ("%" :> "PERCENT") @@ ("(" :> "LPAREN") @@ (")" :> "RPAREN")
    @@ ("{" :> "LBRACE") @@ ("}" :> "RBRACE") @@ ("[" :> "LBRACKET")
    @@ ("]" :> "RBRACKET") @@ ("," :> "COMMA") @@ ("." :> "DOT") @@ (":" :> "COLON")
    @@ (";" :> "SEMICOLON")

createToken(type, value, line, column) ==
  [type |-> type, value |-> value, line |-> line, column |-> column]

RECURSIVE Text(_)
\* the string of a sequence of characters
Text(chars) == IF chars = <<>> THEN "" ELSE Head(chars) \o Text(Tail(chars))

isDigit(char) == char \in {"0", "1", "2", "3", "4", "5", "6", "7", "8", "9"}

isAlpha(char) ==
  char \in {"a", "b", "c", "d", "e", "f", "g", "h", "i", "j", "k", "l", "m", "n", "o",
            "p", "q", "r", "s", "t", "u", "v", "w", "x", "y", "z", "A", "B", "C", "D",
            "E", "F", "G", "H", "I", "J", "K", "L", "M", "N", "O", "P", "Q", "R", "S",
            "T", "U", "V", "W", "X", "Y", "Z", "_"}

isAlphaNumeric(char) == isAlpha(char) \/ isDigit(char)

NewLexer == [pos |-> 1, line |-> 1, column |-> 1]

Lexer_isAtEnd(source, lx) == lx.pos > Len(source)

\* source[pos] ?? '\0', the NUL character written ""
Lexer_current(source, lx) == IF lx.pos <= Len(source) THEN source[lx.pos] ELSE ""

Lexer_peek(source, lx, offset) ==
  IF lx.pos + offset <= Len(source) THEN source[lx.pos + offset] ELSE ""

Lexer_advance(lx) == [lx EXCEPT !.pos = @ + 1, !.column = @ + 1]

\* match(expected): whether it matched
Lexer_match(source, lx, expected) ==
  ~Lexer_isAtEnd(source, lx) /\ Lexer_current(source, lx) = expected

LexError(msg) == [err |-> msg, token |-> createToken("EOF", <<>>, 0, 0), lx |-> NewLexer]

Lexed(type, value, start, lx) ==
  [err |-> "", token |-> createToken(type, value, start.line, start.column), lx |-> lx]

At(start) == " at line " \o ToString(start.line) \o ", column " \o ToString(start.column)

RECURSIVE SkipLine(_, _)
\* the inner while of skipWhitespaceAndComments: up to the end of the line
SkipLine(source, lx) ==
  IF ~Lexer_isAtEnd(source, lx) /\ Lexer_current(source, lx) # "\n"
  THEN SkipLine(source, Lexer_advance(lx))
  ELSE lx

RECURSIVE skipWhitespaceAndComments(_, _)
skipWhitespaceAndComments(source, lx) ==
  IF Lexer_isAtEnd(source, lx) THEN lx
  ELSE LET char == Lexer_current(source, lx) IN
       IF char \in {" ", "\t", "\r"}
       THEN skipWhitespaceAndComments(source, Lexer_advance(lx))
       ELSE IF char = "\n"
       THEN skipWhitespaceAndComments(source,
              Lexer_advance([lx EXCEPT !.line = @ + 1, !.column = 0]))
       ELSE IF char = "/" /\ Lexer_peek(source, lx, 1) = "/"
       THEN skipWhitespaceAndComments(source, SkipLine(source, lx))
       ELSE lx

\* the character an escape sequence stands for
Escaped(char) ==
  CASE char = "n" -> "\n"
    [] char = "t" -> "\t"
    [] char = "r" -> "\r"
    [] OTHER -> char

RECURSIVE StringBody(_, _, _, _)
\* the while of readString: the value read and where it stopped
StringBody(source, lx, quote, value) ==
  IF Lexer_isAtEnd(source, lx) \/ Lexer_current(source, lx) = quote
  THEN [value |-> value, lx |-> lx]
  ELSE IF Lexer_current(source, lx) = "\\"
  THEN IF ~Lexer_isAtEnd(source, Lexer_advance(lx))
       THEN StringBody(source, Lexer_advance(Lexer_advance(lx)), quote,
                       Append(value, Escaped(Lexer_current(source, Lexer_advance(lx)))))
       ELSE StringBody(source, Lexer_advance(lx), quote, value)
  ELSE StringBody(source, Lexer_advance(lx), quote,
                  Append(value, Lexer_current(source, lx)))

StringRead(source, start, body) ==
  IF Lexer_isAtEnd(source, body.lx) THEN LexError("Unterminated string" \o At(start))
  ELSE Lexed("STRING", body.value, start, Lexer_advance(body.lx))

readString(source, lx, quote) ==
  StringRead(source, lx, StringBody(source, Lexer_advance(lx), quote, <<>>))

RECURSIVE DigitRun(_, _)
\* where a run of digits from lx on ends
DigitRun(source, lx) ==
  IF ~Lexer_isAtEnd(source, lx) /\ isDigit(Lexer_current(source, lx))
  THEN DigitRun(source, Lexer_advance(lx))
  ELSE lx

NumberEnd(source, whole) ==
  IF /\ ~Lexer_isAtEnd(source, whole)
     /\ Lexer_current(source, whole) = "."
     /\ isDigit(Lexer_peek(source, whole, 1))
  THEN DigitRun(source, Lexer_advance(whole))
  ELSE whole

NumberRead(source, start, end) ==
  Lexed("NUMBER", SubSeq(source, start.pos, end.pos - 1), start, end)

readNumber(source, lx) == NumberRead(source, lx, NumberEnd(source, DigitRun(source, lx)))

RECURSIVE IdentifierEnd(_, _)
IdentifierEnd(source, lx) ==
  IF ~Lexer_isAtEnd(source, lx) /\ isAlphaNumeric(Lexer_current(source, lx))
  THEN IdentifierEnd(source, Lexer_advance(lx))
  ELSE lx

IdentifierRead(source, start, end) ==
  LET value == SubSeq(source, start.pos, end.pos - 1) IN
  Lexed(IF Text(value) \in DOMAIN KEYWORDS THEN KEYWORDS[Text(value)] ELSE "IDENTIFIER",
        value, start, end)

readIdentifier(source, lx) == IdentifierRead(source, lx, IdentifierEnd(source, lx))

\* the one- and two-character operators of nextToken: two is the token when
\* the character after char is next, one (if any) the token otherwise
Operator(source, lx, char, next, two, one) ==
  IF Lexer_match(source, Lexer_advance(lx), next)
  THEN Lexed(two, <<char, next>>, lx, Lexer_advance(Lexer_advance(lx)))
  ELSE IF one # "" THEN Lexed(one, <<char>>, lx, Lexer_advance(lx))
  ELSE LexError("Unexpected character '" \o char \o "'" \o At(lx))

nextToken(source, lx) ==
  LET char == Lexer_current(source, lx) IN
  IF char = "\"" \/ char = "'" THEN readString(source, lx, char)
  ELSE IF isDigit(char) THEN readNumber(source, lx)
  ELSE IF isAlpha(char) THEN readIdentifier(source, lx)
  ELSE IF char \in DOMAIN Delimiters
  THEN Lexed(Delimiters[char], <<char>>, lx, Lexer_advance(lx))
  ELSE CASE char = "=" -> Operator(source, lx, char, "=", "EQ", "ASSIGN")
         [] char = "!" -> Operator(source, lx, char, "=", "NEQ", "NOT")
         [] char = "<" -> Operator(source, lx, char, "=", "LTE", "LT")
         [] char = ">" -> Operator(source, lx, char, "=", "GTE", "GT")
         [] char = "&" -> Operator(source, lx, char, "&", "AND", "")
         [] char = "|" -> Operator(source, lx, char, "|", "OR", "")
         [] char = "?" ->
              IF Lexer_match(source, Lexer_advance(lx), ".")
              THEN Lexed("QUESTION_DOT", <<"?", ".">>, lx, Lexer_advance(Lexer_advance(lx)))
              ELSE Operator(source, lx, char, ":", "ELVIS", "")
         [] OTHER -> LexError("Unexpected character '" \o char \o "'" \o At(lx))

RECURSIVE Tokenizing(_, _, _), TokenizingAt(_, _, _), Pushed(_, _, _)
\* the while of tokenize
Tokenizing(source, lx, tokens) ==
  TokenizingAt(source,
               IF Lexer_isAtEnd(source, lx) THEN lx
               ELSE skipWhitespaceAndComments(source, lx),
               tokens)

TokenizingAt(source, lx, tokens) ==
  IF Lexer_isAtEnd(source, lx)
  THEN [err |-> "", tokens |-> Append(tokens, createToken("EOF", <<>>, lx.line, lx.column))]
  ELSE Pushed(source, tokens, nextToken(source, lx))

Pushed(source, tokens, t) ==
  IF t.err # "" THEN [err |-> t.err, tokens |-> <<>>]
  ELSE Tokenizing(source, t.lx, Append(tokens, t.token))

\* Lexer.tokenize: the tokens, or the Error thrown
tokenize(source) == Tokenizing(source, NewLexer, <<>>)


(***************************************************************************)
(* Parser (parser.ts).  The Parser's field pos counts from 1.  A result is *)
(* the node parsed and the position after it, or err, the message of the   *)
(* Error thrown ("": none).                                                *)
(***************************************************************************)
Parsed(node, pos) == [err |-> "", node |-> node, pos |-> pos]

ParseError(msg) == [err |-> msg, node |-> NullNode, pos |-> 0]

Parser_current(tokens, pos) == tokens[pos]

Parser_isAtEnd(tokens, pos) == Parser_current(tokens, pos).type = "EOF"

Parser_peek(tokens, pos, offset) ==
  IF pos + offset > Len(tokens) THEN tokens[Len(tokens)] ELSE tokens[pos + offset]

check(tokens, pos, type) ==
  ~Parser_isAtEnd(tokens, pos) /\ Parser_current(tokens, pos).type = type

\* advance(): the position afterwards
Parser_advance(tokens, pos) == IF ~Parser_isAtEnd(tokens, pos) THEN pos + 1 ELSE pos

\* match(type): the position afterwards
Parser_match(tokens, pos, type) ==
  IF check(tokens, pos, type) THEN Parser_advance(tokens, pos) ELSE pos

\* expect(type, message): the token as the node
expect(tokens, pos, type, message) ==
  IF check(tokens, pos, type)
  THEN Parsed(Parser_current(tokens, pos), Parser_advance(tokens, pos))
  ELSE ParseError(message \o " at line " \o ToString(Parser_current(tokens, pos).line))

RECURSIVE skipSemicolons(_, _)
skipSemicolons(tokens, pos) ==
  IF check(tokens, pos, "SEMICOLON") THEN skipSemicolons(tokens, Parser_advance(tokens, pos))
  ELSE pos

consumeOptionalSemicolon(tokens, pos) == Parser_match(tokens, pos, "SEMICOLON")

\* a closing token expected after node
Closed(e, node) == IF e.err # "" THEN e ELSE Parsed(node, e.pos)

DigitValue(char) == CHOOSE d \in 0..9 : ToString(d) = char

RECURSIVE DigitsValue(_)
DigitsValue(digits) ==
  IF digits = <<>> THEN 0
  ELSE 10 * DigitsValue(SubSeq(digits, 1, Len(digits) - 1)) + DigitValue(digits[Len(digits)])

RECURSIVE Significant(_)
\* fraction digits without the trailing zeros
Significant(digits) ==
  IF digits # <<>> /\ digits[Len(digits)] = "0"
  THEN Significant(SubSeq(digits, 1, Len(digits) - 1))
  ELSE digits

\* parseFloat of a NUMBER token's value: digits, then perhaps a dot and digits
parseFloat(value) ==
  LET dot == IF \E i \in 1..Len(value) : value[i] = "."
             THEN CHOOSE i \in 1..Len(value) : value[i] = "."
             ELSE Len(value) + 1
  IN  [NumberLiteral(DigitsValue(SubSeq(value, 1, dot - 1)))
         EXCEPT !.fraction = Significant(SubSeq(value, dot + 1, Len(value)))]

StringTemplate(parts) == [type |-> "StringTemplate", parts |-> parts]

RECURSIVE parseStatement(_, _), parseBlockStatement(_, _), parseExpression(_, _),
          parseElvis(_, _), parseOr(_, _), parseAnd(_, _), parseEquality(_, _),
          parseComparison(_, _), parseAdditive(_, _), parseMultiplicative(_, _),
          parseUnary(_, _), parsePostfix(_, _), parsePrimary(_, _),
          ProgramLoop(_, _, _), ProgramNext(_, _, _), BlockLoop(_, _, _),
          BlockNext(_, _, _), ElvisLoop(_, _), OrLoop(_, _), AndLoop(_, _),
          EqualityLoop(_, _), ComparisonLoop(_, _), AdditiveLoop(_, _),
          MultiplicativeLoop(_, _), PostfixLoop(_, _), ExpressionList(_, _, _),
          ListNext(_, _, _), PropertyList(_, _, _), PropertyNext(_, _, _, _),
          parseIfStatement(_, _), IfCondition(_, _), IfThen(_, _, _),
          parseBranch(_, _), parseForStatement(_, _), ForIterable(_, _, _),
          parseFunctionLiteral(_, _)

\* the while of parse
ProgramLoop(tokens, pos, statements) ==
  IF Parser_isAtEnd(tokens, pos) THEN Parsed(Program(statements), pos)
  ELSE ProgramNext(tokens, statements, parseStatement(tokens, pos))

ProgramNext(tokens, statements, stmt) ==
  IF stmt.err # "" THEN stmt
  ELSE ProgramLoop(tokens, stmt.pos,
                   IF stmt.node = NullNode THEN statements
                   ELSE Append(statements, stmt.node))

\* Parser.parse: the Program as the node, or the Error thrown
parse(tokens) == ProgramLoop(tokens, 1, <<>>)

LetParsed(tokens, name, value) ==
  IF value.err # "" THEN value
  ELSE Parsed(LetStatement(Text(name.value), value.node),
              consumeOptionalSemicolon(tokens, value.pos))

parseLetStatement(tokens, pos) ==
  LET name == expect(tokens, Parser_advance(tokens, pos), "IDENTIFIER",
                     "Expected variable name")
      assign == expect(tokens, name.pos, "ASSIGN", "Expected '=' after variable name")
  IN  IF name.err # "" THEN name
      ELSE IF assign.err # "" THEN assign
      ELSE LetParsed(tokens, name.node, parseExpression(tokens, assign.pos))

AssignmentParsed(tokens, name, value) ==
  IF value.err # "" THEN value
  ELSE Parsed(AssignmentStatement(Text(name.value), value.node),
              consumeOptionalSemicolon(tokens, value.pos))

parseAssignmentStatement(tokens, pos) ==
  LET name == expect(tokens, pos, "IDENTIFIER", "Expected variable name")
      assign == expect(tokens, name.pos, "ASSIGN", "Expected '=' after variable name")
  IN  IF name.err # "" THEN name
      ELSE IF assign.err # "" THEN assign
      ELSE AssignmentParsed(tokens, name.node, parseExpression(tokens, assign.pos))

\* a branch of an if: a block, or one statement (null at the end of the tokens)
parseBranch(tokens, pos) ==
  IF check(tokens, pos, "LBRACE") THEN parseBlockStatement(tokens, pos)
  ELSE parseStatement(tokens, pos)

IfElse(condition, thenBranch, elseBranch) ==
  IF elseBranch.err # "" THEN elseBranch
  ELSE Parsed(IfStatement(condition, thenBranch, elseBranch.node), elseBranch.pos)

IfThen(tokens, condition, thenBranch) ==
  IF thenBranch.err # "" THEN thenBranch
  ELSE IF check(tokens, thenBranch.pos, "ELSE")
  THEN IfElse(condition, thenBranch.node,
              parseBranch(tokens, Parser_advance(tokens, thenBranch.pos)))
  ELSE Parsed(IfStatement(condition, thenBranch.node, NullNode), thenBranch.pos)

IfCondition(tokens, condition) ==
  IF condition.err # "" THEN condition
  ELSE LET close == expect(tokens, condition.pos, "RPAREN", "Expected ')' after condition")
       IN  IF close.err # "" THEN close
           ELSE IfThen(tokens, condition.node, parseBranch(tokens, close.pos))

parseIfStatement(tokens, pos) ==
  LET open == expect(tokens, Parser_advance(tokens, pos), "LPAREN",
                     "Expected '(' after 'if'")
  IN  IF open.err # "" THEN open
      ELSE IfCondition(tokens, parseExpression(tokens, open.pos))

ReturnParsed(tokens, value) ==
  IF value.err # "" THEN value
  ELSE Parsed(ReturnStatement(value.node), consumeOptionalSemicolon(tokens, value.pos))

parseReturnStatement(tokens, pos) ==
  LET at == Parser_advance(tokens, pos) IN
  IF ~check(tokens, at, "SEMICOLON") /\ ~check(tokens, at, "RBRACE")
       /\ ~Parser_isAtEnd(tokens, at)
  THEN ReturnParsed(tokens, parseExpression(tokens, at))
  ELSE Parsed(ReturnStatement(NullNode), consumeOptionalSemicolon(tokens, at))

ForBody(variable, iterable, body) ==
  IF body.err # "" THEN body
  ELSE Parsed(ForStatement(variable, iterable, body.node), body.pos)

ForIterable(tokens, variable, iterable) ==
  IF iterable.err # "" THEN iterable
  ELSE LET close == expect(tokens, iterable.pos, "RPAREN", "Expected ')' after iterable")
       IN  IF close.err # "" THEN close
           ELSE ForBody(variable, iterable.node, parseBlockStatement(tokens, close.pos))

parseForStatement(tokens, pos) ==
  LET open == expect(tokens, Parser_advance(tokens, pos), "LPAREN",
                     "Expected '(' after 'for'")
      name == expect(tokens, open.pos, "IDENTIFIER", "Expected variable name")
      in == expect(tokens, name.pos, "IN", "Expected 'in' after variable name")
  IN  IF open.err # "" THEN open
      ELSE IF name.err # "" THEN name
      ELSE IF in.err # "" THEN in
      ELSE ForIterable(tokens, Identifier(Text(name.node.value)),
                       parseExpression(tokens, in.pos))

\* the while of parseBlockStatement
BlockLoop(tokens, pos, statements) ==
  IF ~check(tokens, pos, "RBRACE") /\ ~Parser_isAtEnd(tokens, pos)
  THEN BlockNext(tokens, statements, parseStatement(tokens, pos))
  ELSE Closed(expect(tokens, pos, "RBRACE", "Expected '}' after block"),
              BlockStatement(statements))

BlockNext(tokens, statements, stmt) ==
  IF stmt.err # "" THEN stmt
  ELSE BlockLoop(tokens, stmt.pos,
                 IF stmt.node = NullNode THEN statements
                 ELSE Append(statements, stmt.node))

parseBlockStatement(tokens, pos) == BlockLoop(tokens, Parser_advance(tokens, pos), <<>>)

ExpressionStatementParsed(tokens, expression) ==
  IF expression.err # "" THEN expression
  ELSE Parsed(ExpressionStatement(expression.node),
              consumeOptionalSemicolon(tokens, expression.pos))

parseExpressionStatement(tokens, pos) ==
  ExpressionStatementParsed(tokens, parseExpression(tokens, pos))

\* parseStatement once the semicolons are skipped
StatementAt(tokens, pos) ==
  IF Parser_isAtEnd(tokens, pos) THEN Parsed(NullNode, pos)
  ELSE IF check(tokens, pos, "LET") THEN parseLetStatement(tokens, pos)
  ELSE IF check(tokens, pos, "IDENTIFIER") /\ Parser_peek(tokens, pos, 1).type = "ASSIGN"
  THEN parseAssignmentStatement(tokens, pos)
  ELSE IF check(tokens, pos, "IF") THEN parseIfStatement(tokens, pos)
  ELSE IF check(tokens, pos, "RETURN") THEN parseReturnStatement(tokens, pos)
  ELSE IF check(tokens, pos, "FOR") THEN parseForStatement(tokens, pos)
  ELSE IF check(tokens, pos, "LBRACE") THEN parseBlockStatement(tokens, pos)
  ELSE parseExpressionStatement(tokens, pos)

parseStatement(tokens, pos) == StatementAt(tokens, skipSemicolons(tokens, pos))

parseExpression(tokens, pos) == parseElvis(tokens, pos)

Elvis(left, right) ==
  IF right.err # "" THEN right ELSE Parsed(ElvisExpr(left.node, right.node), right.pos)

\* the while of parseElvis
ElvisLoop(tokens, left) ==
  IF left.err # "" \/ ~check(tokens, left.pos, "ELVIS") THEN left
  ELSE ElvisLoop(tokens, Elvis(left, parseOr(tokens, Parser_advance(tokens, left.pos))))

parseElvis(tokens, pos) == ElvisLoop(tokens, parseOr(tokens, pos))

\* left = { type: 'BinaryExpr', operator, left, right }
Binary(operator, left, right) ==
  IF right.err # "" THEN right
  ELSE Parsed(BinaryExpr(Text(operator.value), left.node, right.node), right.pos)

OrLoop(tokens, left) ==
  IF left.err # "" \/ ~check(tokens, left.pos, "OR") THEN left
  ELSE OrLoop(tokens, Binary(Parser_current(tokens, left.pos), left,
                             parseAnd(tokens, Parser_advance(tokens, left.pos))))

parseOr(tokens, pos) == OrLoop(tokens, parseAnd(tokens, pos))

AndLoop(tokens, left) ==
  IF left.err # "" \/ ~check(tokens, left.pos, "AND") THEN left
  ELSE AndLoop(tokens, Binary(Parser_current(tokens, left.pos), left,
                              parseEquality(tokens, Parser_advance(tokens, left.pos))))

parseAnd(tokens, pos) == AndLoop(tokens, parseEquality(tokens, pos))

EqualityLoop(tokens, left) ==
  IF left.err # "" \/ ~(check(tokens, left.pos, "EQ") \/ check(tokens, left.pos, "NEQ"))
  THEN left
  ELSE EqualityLoop(tokens, Binary(Parser_current(tokens, left.pos), left,
                                   parseComparison(tokens, Parser_advance(tokens, left.pos))))

parseEquality(tokens, pos) == EqualityLoop(tokens, parseComparison(tokens, pos))

ComparisonLoop(tokens, left) ==
  IF left.err # "" \/ ~(\/ check(tokens, left.pos, "LT") \/ check(tokens, left.pos, "LTE")
                        \/ check(tokens, left.pos, "GT") \/ check(tokens, left.pos, "GTE"))
  THEN left
  ELSE ComparisonLoop(tokens, Binary(Parser_current(tokens, left.pos), left,
                                     parseAdditive(tokens, Parser_advance(tokens, left.pos))))

parseComparison(tokens, pos) == ComparisonLoop(tokens, parseAdditive(tokens, pos))

AdditiveLoop(tokens, left) ==
  IF left.err # "" \/ ~(check(tokens, left.pos, "PLUS") \/ check(tokens, left.pos, "MINUS"))
  THEN left
  ELSE AdditiveLoop(tokens, Binary(Parser_current(tokens, left.pos), left,
                                   parseMultiplicative(tokens,
                                                       Parser_advance(tokens, left.pos))))

parseAdditive(tokens, pos) == AdditiveLoop(tokens, parseMultiplicative(tokens, pos))

MultiplicativeLoop(tokens, left) ==
  IF left.err # "" \/ ~(\/ check(tokens, left.pos, "STAR") \/ check(tokens, left.pos, "SLASH")
                        \/ check(tokens, left.pos, "PERCENT"))
  THEN left
  ELSE MultiplicativeLoop(tokens, Binary(Parser_current(tokens, left.pos), left,
                                         parseUnary(tokens, Parser_advance(tokens, left.pos))))

parseMultiplicative(tokens, pos) == MultiplicativeLoop(tokens, parseUnary(tokens, pos))

Unary(operator, operand) ==
  IF operand.err # "" THEN operand
  ELSE Parsed(UnaryExpr(Text(operator.value), operand.node), operand.pos)

parseUnary(tokens, pos) ==
  IF check(tokens, pos, "NOT") \/ check(tokens, pos, "MINUS")
  THEN Unary(Parser_current(tokens, pos), parseUnary(tokens, Parser_advance(tokens, pos)))
  ELSE parsePostfix(tokens, pos)

\* the do-while over comma-separated expressions, of arguments and of elements
ExpressionList(tokens, pos, list) == ListNext(tokens, list, parseExpression(tokens, pos))

ListNext(tokens, list, expression) ==
  IF expression.err # "" THEN expression
  ELSE IF check(tokens, expression.pos, "COMMA")
  THEN ExpressionList(tokens, Parser_advance(tokens, expression.pos),
                      Append(list, expression.node))
  ELSE Parsed(Append(list, expression.node), expression.pos)

\* the expressions up to a closing token, which is left to the caller
Expressions(tokens, pos, closing) ==
  IF check(tokens, pos, closing) THEN Parsed(<<>>, pos) ELSE ExpressionList(tokens, pos, <<>>)

Call(tokens, callee, args) ==
  IF args.err # "" THEN args
  ELSE Closed(expect(tokens, args.pos, "RPAREN", "Expected ')' after arguments"),
              CallExpr(callee, args.node))

Member(object, property) ==
  IF property.err # "" THEN property
  ELSE Parsed(MemberExpr(object, Text(property.node.value)), property.pos)

SafeMember(object, property) ==
  IF property.err # "" THEN property
  ELSE Parsed(SafeMemberExpr(object, Text(property.node.value)), property.pos)

Index(tokens, object, index) ==
  IF index.err # "" THEN index
  ELSE Closed(expect(tokens, index.pos, "RBRACKET", "Expected ']' after index"),
              IndexExpr(object, index.node))

\* the while of parsePostfix
PostfixLoop(tokens, expr) ==
  IF expr.err # "" THEN expr
  ELSE IF check(tokens, expr.pos, "LPAREN")
  THEN PostfixLoop(tokens,
         Call(tokens, expr.node,
              Expressions(tokens, Parser_advance(tokens, expr.pos), "RPAREN")))
  ELSE IF check(tokens, expr.pos, "DOT")
  THEN PostfixLoop(tokens,
         Member(expr.node, expect(tokens, Parser_advance(tokens, expr.pos), "IDENTIFIER",
                                  "Expected property name")))
  ELSE IF check(tokens, expr.pos, "QUESTION_DOT")
  THEN PostfixLoop(tokens,
         SafeMember(expr.node, expect(tokens, Parser_advance(tokens, expr.pos),
                                      "IDENTIFIER", "Expected property name")))
  ELSE IF check(tokens, expr.pos, "LBRACKET")
  THEN PostfixLoop(tokens,
         Index(tokens, expr.node, parseExpression(tokens, Parser_advance(tokens, expr.pos))))
  ELSE expr

parsePostfix(tokens, pos) == PostfixLoop(tokens, parsePrimary(tokens, pos))

Parenthesized(tokens, expr) ==
  IF expr.err # "" THEN expr
  ELSE Closed(expect(tokens, expr.pos, "RPAREN", "Expected ')' after expression"), expr.node)

Elements(tokens, elements) ==
  IF elements.err # "" THEN elements
  ELSE Closed(expect(tokens, elements.pos, "RBRACKET", "Expected ']' after array elements"),
              ArrayLiteral(elements.node))

parseArrayLiteral(tokens, pos) ==
  Elements(tokens, Expressions(tokens, Parser_advance(tokens, pos), "RBRACKET"))

\* the do-while of parseObjectLiteral
PropertyList(tokens, pos, properties) ==
  LET key == expect(tokens, pos, "IDENTIFIER", "Expected property name")
      colon == expect(tokens, key.pos, "COLON", "Expected ':' after property name")
  IN  IF key.err # "" THEN key
      ELSE IF colon.err # "" THEN colon
      ELSE PropertyNext(tokens, properties, Text(key.node.value),
                        parseExpression(tokens, colon.pos))

PropertyNext(tokens, properties, key, value) ==
  IF value.err # "" THEN value
  ELSE IF check(tokens, value.pos, "COMMA")
  THEN PropertyList(tokens, Parser_advance(tokens, value.pos),
                    Append(properties, [key |-> key, value |-> value.node]))
  ELSE Parsed(Append(properties, [key |-> key, value |-> value.node]), value.pos)

Properties(tokens, properties) ==
  IF properties.err # "" THEN properties
  ELSE Closed(expect(tokens, properties.pos, "RBRACE",
                     "Expected '}' after object properties"),
              ObjectLiteral(properties.node))

parseObjectLiteral(tokens, pos) ==
  Properties(tokens,
             IF check(tokens, Parser_advance(tokens, pos), "RBRACE")
             THEN Parsed(<<>>, Parser_advance(tokens, pos))
             ELSE PropertyList(tokens, Parser_advance(tokens, pos), <<>>))

RECURSIVE ParameterList(_, _, _)
\* the do-while of parseFunctionLiteral
ParameterList(tokens, pos, parameters) ==
  LET param == expect(tokens, pos, "IDENTIFIER", "Expected parameter name") IN
  IF param.err # "" THEN param
  ELSE IF check(tokens, param.pos, "COMMA")
  THEN ParameterList(tokens, Parser_advance(tokens, param.pos),
                     Append(parameters, Identifier(Text(param.node.value))))
  ELSE Parsed(Append(parameters, Identifier(Text(param.node.value))), param.pos)

FunctionBody(parameters, body) ==
  IF body.err # "" THEN body
  ELSE Parsed(FunctionLiteral(parameters, body.node), body.pos)

Parameters(tokens, parameters) ==
  IF parameters.err # "" THEN parameters
  ELSE LET close == expect(tokens, parameters.pos, "RPAREN",
                           "Expected ')' after parameters")
       IN  IF close.err # "" THEN close
           ELSE FunctionBody(parameters.node, parseBlockStatement(tokens, close.pos))

parseFunctionLiteral(tokens, pos) ==
  LET open == expect(tokens, Parser_advance(tokens, pos), "LPAREN",
                     "Expected '(' after 'fn'")
  IN  IF open.err # "" THEN open
      ELSE Parameters(tokens,
                      IF check(tokens, open.pos, "RPAREN") THEN Parsed(<<>>, open.pos)
                      ELSE ParameterList(tokens, open.pos, <<>>))

parseStringTemplate(tokens, pos) ==
  Parsed(StringTemplate(<<StringLiteral(Text(Parser_current(tokens, pos).value))>>),
         Parser_advance(tokens, pos))

parsePrimary(tokens, pos) ==
  IF check(tokens, pos, "NUMBER")
  THEN Parsed(parseFloat(Parser_current(tokens, pos).value), Parser_advance(tokens, pos))
  ELSE IF check(tokens, pos, "STRING")
  THEN Parsed(StringLiteral(Text(Parser_current(tokens, pos).value)),
              Parser_advance(tokens, pos))
  ELSE IF check(tokens, pos, "STRING_TEMPLATE") THEN parseStringTemplate(tokens, pos)
  ELSE IF check(tokens, pos, "TRUE")
  THEN Parsed(BooleanLiteral(TRUE), Parser_advance(tokens, pos))
  ELSE IF check(tokens, pos, "FALSE")
  THEN Parsed(BooleanLiteral(FALSE), Parser_advance(tokens, pos))
  ELSE IF check(tokens, pos, "NULL") THEN Parsed(NullLiteral, Parser_advance(tokens, pos))
  ELSE IF check(tokens, pos, "IDENTIFIER")
  THEN Parsed(Identifier(Text(Parser_current(tokens, pos).value)),
              Parser_advance(tokens, pos))
  ELSE IF check(tokens, pos, "FN") THEN parseFunctionLiteral(tokens, pos)
  ELSE IF check(tokens, pos, "LPAREN")
  THEN Parenthesized(tokens, parseExpression(tokens, Parser_advance(tokens, pos)))
  ELSE IF check(tokens, pos, "LBRACKET") THEN parseArrayLiteral(tokens, pos)
  ELSE IF check(tokens, pos, "LBRACE") THEN parseObjectLiteral(tokens, pos)
  ELSE ParseError("Unexpected token: " \o Text(Parser_current(tokens, pos).value)
                    \o " at line " \o ToString(Parser_current(tokens, pos).line))


(***************************************************************************)
(* ASTCache (cache.ts).                                                    *)
(***************************************************************************)
\* what get returns on a miss
Undefined == [type |-> "undefined"]

\* get without the collision check: whatever the key holds is returned
ASTCache_get_Unverified(entries, source) ==
  LET key == Hash(source) IN
  IF ~HasKey(entries, key) THEN [entries |-> entries, ret |-> Undefined]
  ELSE LET entry == EntryOf(entries, key) IN
       [entries |-> Append(Without(entries, key), entry), ret |-> entry.program]

\* get that moves to the end the entry it finds, its own or not
ASTCache_get_MovesFirst(entries, source) ==
  LET key == Hash(source) IN
  IF ~HasKey(entries, key) THEN [entries |-> entries, ret |-> Undefined]
  ELSE LET entry == EntryOf(entries, key) IN
       [entries |-> Append(Without(entries, key), entry),
        ret |-> IF entry.source # source THEN Undefined ELSE entry.program]

\* get that deletes the entry it hits and does not put it back
ASTCache_get_Dropping(entries, source) ==
  LET key == Hash(source) IN
  IF ~HasKey(entries, key) THEN [entries |-> entries, ret |-> Undefined]
  ELSE LET entry == EntryOf(entries, key) IN
       IF entry.source # source THEN [entries |-> entries, ret |-> Undefined]
       ELSE [entries |-> Without(entries, key), ret |-> entry.program]

\* get that leaves the entry where it is: insertion order, not use order
ASTCache_get_Unmoved(entries, source) ==
  LET key == Hash(source) IN
  IF ~HasKey(entries, key) THEN [entries |-> entries, ret |-> Undefined]
  ELSE LET entry == EntryOf(entries, key) IN
       IF entry.source # source THEN [entries |-> entries, ret |-> Undefined]
       ELSE [entries |-> entries, ret |-> entry.program]

\* ASTCache.get: the entries afterwards and the value returned
ASTCache_get(entries, source) ==
  LET key == Hash(source) IN
  IF ~HasKey(entries, key) THEN [entries |-> entries, ret |-> Undefined]
  ELSE LET entry == EntryOf(entries, key) IN
       IF entry.source # source THEN [entries |-> entries, ret |-> Undefined]
       ELSE [entries |-> Append(Without(entries, key), entry), ret |-> entry.program]

\* set that looks at the size before it removes the entry under the key
ASTCache_set_SizeFirst(entries, cap, source, program) ==
  LET key == Hash(source)
      full == Len(entries) >= cap
      evicted == IF full /\ entries # <<>> THEN <<Head(entries).key>> ELSE <<>>
      kept == Without(IF full /\ entries # <<>> THEN Tail(entries) ELSE entries, key)
  IN  [entries |-> Append(kept, [key |-> key, source |-> source, program |-> program]),
       evicted |-> evicted]

\* ASTCache.set: the entries afterwards and the keys evicted for capacity
ASTCache_set(entries, cap, source, program) ==
  LET key == Hash(source)
      removed == Without(entries, key)
      full == Len(removed) >= cap
      evicted == IF full /\ removed # <<>> THEN <<Head(removed).key>> ELSE <<>>
      kept == IF full /\ removed # <<>> THEN Tail(removed) ELSE removed
  IN  [entries |-> Append(kept, [key |-> key, source |-> source, program |-> program]),
       evicted |-> evicted]

\* ASTCache.clear
ASTCache_clear(entries) == <<>>

\* ASTCache.size
ASTCache_size(entries) == Len(entries)



(***************************************************************************)
(* Values of the language.  A value is a record tagged by t.               *)
(*   null, undefined, bool, num (an integer), nan, inexact (a number that  *)
(*   is no integer: the model does not tell such numbers apart), str, arr, *)
(*   obj (a plain object: its properties in insertion order), fn (a        *)
(*   FunctionValue), native (a function of the registry)                   *)
(***************************************************************************)
VNull == [t |-> "null"]
VUndefined == [t |-> "undefined"]
VBool(b) == [t |-> "bool", v |-> b]
VNum(n) == [t |-> "num", v |-> n]
VNaN == [t |-> "nan"]
VInexact == [t |-> "inexact"]
VStr(str) == [t |-> "str", v |-> str]
VArr(elems) == [t |-> "arr", v |-> elems]
VObj(props) == [t |-> "obj", v |-> props]
VNative(name) == [t |-> "native", name |-> name]

\* class FunctionValue
\* (closure: which of the closure Maps created, values being copied by reference)
FunctionValue(parameters, body, closure) ==
  [t |-> "fn", parameters |-> parameters, body |-> body, closure |-> closure]

\* value === null || value === undefined
IsNullish(v) == v.t \in {"null", "undefined"}

\* an elvis expression that gives its left operand whenever it is truthy
ElvisLeft_Truthy(v) ==
  v.t \notin {"null", "undefined"} /\ v # VBool(FALSE) /\ v # VNum(0) /\ v # VStr("")

\* an elvis expression that never evaluates its right operand
ElvisLeft_Always(v) == TRUE

\* left !== null && left !== undefined
ElvisLeft(v) == v.t # "null" /\ v.t # "undefined"

\* typeof value === 'number'
IsNumber(v) == v.t \in {"num", "nan", "inexact"}

\* Interpreter.isTruthy
isTruthy(v) ==
  IF IsNullish(v) THEN FALSE
  ELSE IF v.t = "bool" THEN v.v
  ELSE IF v.t = "num" THEN v.v # 0
  ELSE IF IsNumber(v) THEN TRUE      \* NaN !== 0
  ELSE IF v.t = "str" THEN v.v # ""
  ELSE TRUE

(***************************************************************************)
(* The Map of variables: a function from the names bound to their values.  *)
(***************************************************************************)
EmptyMap == [n \in {} |-> VNull]

\* Map.has
Has(map, name) == name \in DOMAIN map

\* Map.get: undefined for a name the Map does not hold
MapGet(map, name) == IF name \in DOMAIN map THEN map[name] ELSE VUndefined

\* Map.set
MapSet(map, name, val) ==
  [n \in DOMAIN map \cup {name} |-> IF n = name THEN val ELSE map[n]]

\* Map.delete
MapDelete(map, name) == [n \in DOMAIN map \ {name} |-> map[n]]

\* closure.forEach((value, key) => variables.set(key, value))
MapSetAll(map, from) ==
  [n \in DOMAIN map \cup DOMAIN from |-> IF n \in DOMAIN from THEN from[n] ELSE map[n]]

(***************************************************************************)
(* Conversions of the host language.                                       *)
(***************************************************************************)
MaxNumeral == 20

\* the decimal text of an integer
NumText(n) == ToString(n)

RECURSIVE JoinWith(_, _)
\* Array.prototype.join over texts
JoinWith(texts, sep) ==
  IF texts = <<>> THEN ""
  ELSE IF Len(texts) = 1 THEN texts[1]
  ELSE texts[1] \o sep \o JoinWith(Tail(texts), sep)

RECURSIVE JSString(_)
\* String(value)
JSString(v) ==
  CASE v.t = "null" -> "null"
    [] v.t = "undefined" -> "undefined"
    [] v.t = "bool" -> IF v.v THEN "true" ELSE "false"
    [] v.t = "num" -> NumText(v.v)
    [] v.t = "nan" -> "NaN"
    [] v.t = "inexact" -> "<number>"
    [] v.t = "str" -> v.v
    [] v.t = "arr" ->
         JoinWith([i \in 1..Len(v.v) |->
                     IF IsNullish(v.v[i]) THEN "" ELSE JSString(v.v[i])], ",")
    [] v.t = "native" -> "<function " \o v.name \o ">"
    [] OTHER -> "[object Object]"

\* Number(text): the empty text is 0, the decimal numerals up to MaxNumeral are
\* their numbers; any other text is taken for no number
TextToNumber(str) ==
  IF str = "" THEN VNum(0)
  ELSE IF \E n \in -MaxNumeral..MaxNumeral : NumText(n) = str
       THEN VNum(CHOOSE n \in -MaxNumeral..MaxNumeral : NumText(n) = str)
       ELSE VNaN

\* Number(value)
ToNumber(v) ==
  CASE IsNumber(v) -> v
    [] v.t = "null" -> VNum(0)
    [] v.t = "bool" -> VNum(IF v.v THEN 1 ELSE 0)
    [] v.t = "str" -> TextToNumber(v.v)
    [] v.t = "arr" -> TextToNumber(JSString(v))
    [] OTHER -> VNaN

RECURSIVE JSONText(_)
\* JSON.stringify(value) for a value it gives a text for
JSONText(v) ==
  CASE v.t = "null" -> "null"
    [] v.t = "bool" -> IF v.v THEN "true" ELSE "false"
    [] v.t = "num" -> NumText(v.v)
    [] v.t = "nan" -> "null"
    [] v.t = "inexact" -> "<number>"
    [] v.t = "str" -> "\"" \o v.v \o "\""
    [] v.t = "arr" ->
         "[" \o JoinWith([i \in 1..Len(v.v) |->
                            IF v.v[i].t \in {"undefined", "native"} THEN "null"
                            ELSE JSONText(v.v[i])], ",") \o "]"
    [] v.t = "obj" ->
         LET shown == SelectSeq(v.v, LAMBDA p : p.value.t \notin {"undefined", "native"})
         IN  "{" \o JoinWith([i \in 1..Len(shown) |->
                                "\"" \o shown[i].key \o "\":" \o JSONText(shown[i].value)],
                             ",") \o "}"
    [] OTHER -> "{<FunctionValue>}"

\* stringify (natives.ts)
stringify(v) ==
  IF IsNullish(v) THEN "null"
  ELSE IF v.t \in {"arr", "obj", "fn"} THEN JSONText(v)
  ELSE JSString(v)

(***************************************************************************)
(* Operators of the language (evaluateBinaryExpr, evaluateUnaryExpr).      *)
(***************************************************************************)
Abs(n) == IF n < 0 THEN -n ELSE n

\* + - * / % on two numbers; a quotient that is no integer is inexact
Arith(op, a, b) ==
  IF a.t = "nan" \/ b.t = "nan" THEN VNaN
  ELSE IF a.t = "inexact" \/ b.t = "inexact" THEN VInexact
  ELSE CASE op = "+" -> VNum(a.v + b.v)
         [] op = "-" -> VNum(a.v - b.v)
         [] op = "*" -> VNum(a.v * b.v)
         [] op = "/" ->
              IF b.v = 0 THEN (IF a.v = 0 THEN VNaN ELSE VInexact)
              ELSE IF Abs(a.v) % Abs(b.v) # 0 THEN VInexact
              ELSE VNum((IF (a.v < 0) # (b.v < 0) THEN -1 ELSE 1)
                          * (Abs(a.v) \div Abs(b.v)))
         [] op = "%" ->
              IF b.v = 0 THEN VNaN
              ELSE VNum((IF a.v < 0 THEN -1 ELSE 1) * (Abs(a.v) % Abs(b.v)))

\* < <= > >= on two numbers: false when either is NaN
Compare(op, a, b) ==
  IF a.t # "num" \/ b.t # "num" THEN VBool(FALSE)
  ELSE CASE op = "<" -> VBool(a.v < b.v)
         [] op = "<=" -> VBool(a.v <= b.v)
         [] op = ">" -> VBool(a.v > b.v)
         [] op = ">=" -> VBool(a.v >= b.v)

\* left === right.  Arrays, objects and functions are equal when they are one
\* object: the model takes two of them for one object when they are alike.
StrictEquals(a, b) ==
  IF a.t # b.t THEN FALSE
  ELSE IF a.t \in {"nan", "inexact"} THEN FALSE
  ELSE a = b

ArithOps == {"+", "-", "*", "/", "%"}
CompareOps == {"<", "<=", ">", ">="}

\* the switch of evaluateBinaryExpr: the value, or the error thrown
BinaryOp(op, left, right) ==
  CASE op = "+" /\ (left.t = "str" \/ right.t = "str") ->
         [err |-> "",
          v |-> VStr((IF IsNullish(left) THEN "" ELSE JSString(left))
                     \o (IF IsNullish(right) THEN "" ELSE JSString(right)))]
    [] op \in ArithOps /\ ~(op = "+" /\ (left.t = "str" \/ right.t = "str")) ->
         [err |-> "", v |-> Arith(op, ToNumber(left), ToNumber(right))]
    [] op = "==" -> [err |-> "", v |-> VBool(StrictEquals(left, right))]
    [] op = "!=" -> [err |-> "", v |-> VBool(~StrictEquals(left, right))]
    [] op \in CompareOps -> [err |-> "", v |-> Compare(op, ToNumber(left), ToNumber(right))]
    [] op \in {"&&", "and"} -> [err |-> "", v |-> VBool(isTruthy(left) /\ isTruthy(right))]
    [] op \in {"||", "or"} -> [err |-> "", v |-> VBool(isTruthy(left) \/ isTruthy(right))]
    [] OTHER -> [err |-> "Unknown operator: " \o op, v |-> VNull]

\* the switch of evaluateUnaryExpr
UnaryOp(op, operand) ==
  CASE op = "-" -> [err |-> "", v |-> Arith("-", VNum(0), ToNumber(operand))]
    [] op \in {"!", "not"} -> [err |-> "", v |-> VBool(~isTruthy(operand))]
    [] OTHER -> [err |-> "Unknown unary operator: " \o op, v |-> VNull]

\* typeof value
TypeOf(v) ==
  CASE v.t = "undefined" -> "undefined"
    [] v.t = "bool" -> "boolean"
    [] IsNumber(v) -> "number"
    [] v.t = "str" -> "string"
    [] v.t \in {"native", "bound", "unbound"} -> "function"
    [] OTHER -> "object"

(***************************************************************************)
(* Plain objects: properties in insertion order.                           *)
(***************************************************************************)
HasProp(props, key) == \E i \in 1..Len(props) : props[i].key = key

\* obj[key]
PropGet(props, key) ==
  IF HasProp(props, key)
  THEN props[CHOOSE i \in 1..Len(props) : props[i].key = key].value
  ELSE VUndefined

\* obj[key] = value
PropSet(props, key, val) ==
  IF HasProp(props, key)
  THEN [i \in 1..Len(props) |->
          IF props[i].key = key THEN [key |-> key, value |-> val] ELSE props[i]]
  ELSE Append(props, [key |-> key, value |-> val])

\* value ?? null
OrNull(v) == IF IsNullish(v) THEN VNull ELSE v

(***************************************************************************)
(* The native functions the model registers (natives.ts).                  *)
(***************************************************************************)
NativeNames == {"print", "size", "first", "last", "isNull", "typeOf", "jsonStringify"}

\* the i-th argument of a call: undefined when the call gave fewer
Arg(args, i) == IF i <= Len(args) THEN args[i] ELSE VUndefined

\* createNatives: the function registered under name, applied to args
NativeCall(name, args) ==
  CASE name = "print" ->
         VStr(JoinWith([i \in 1..Len(args) |-> stringify(args[i])], " "))
    [] name = "size" ->
         IF Arg(args, 1).t = "arr" THEN VNum(Len(Arg(args, 1).v)) ELSE VNum(0)
    [] name = "first" ->
         IF Arg(args, 1).t = "arr" /\ Len(Arg(args, 1).v) > 0
         THEN Arg(args, 1).v[1] ELSE VNull
    [] name = "last" ->
         IF Arg(args, 1).t = "arr" /\ Len(Arg(args, 1).v) > 0
         THEN Arg(args, 1).v[Len(Arg(args, 1).v)] ELSE VNull
    [] name = "isNull" -> VBool(IsNullish(Arg(args, 1)))
    [] name = "typeOf" ->
         IF Arg(args, 1).t = "null" THEN VStr("null")
         ELSE IF Arg(args, 1).t = "arr" THEN VStr("array")
         ELSE VStr(TypeOf(Arg(args, 1)))
    [] name = "jsonStringify" ->
         IF Arg(args, 1).t \in {"undefined", "native"} THEN VUndefined
         ELSE VStr(JSONText(Arg(args, 1)))

(***************************************************************************)
(* The Interpreter (interpreter.ts).  Its state while a node is evaluated: *)
(*   variables, functions, output, opCount, maxOps, deadline  the fields   *)
(*   now, rate   Date.now(), and the time one node evaluation takes        *)
(*   k, v, err   how the evaluation ended: "ok" with value v, "return"     *)
(*               (a thrown ReturnValue carrying v), "throw" (an Error with *)
(*               message err)                                              *)
(*   evals       history: the calls of evaluate made                       *)
(*   events      history: the function literals evaluated, the function    *)
(*               applications and the for-loops ended, in that order       *)
(***************************************************************************)
MaxTime == 4

Ok(st, val) == [st EXCEPT !.k = "ok", !.v = val]
Throw(st, msg) == [st EXCEPT !.k = "throw", !.v = VNull, !.err = msg]
ReturnSignal(st, val) == [st EXCEPT !.k = "return", !.v = val]

LimitsExceededError == "max operations exceeded"
TimeoutError == "execution timeout"

\* checkLimits that fails at the N-th evaluation already, not after it
checkLimits_AtQuota(st) ==
  LET counted == IF st.maxOps > 0 THEN [st EXCEPT !.opCount = @ + 1] ELSE st IN
  IF st.maxOps > 0 /\ counted.opCount >= st.maxOps THEN Throw(counted, LimitsExceededError)
  ELSE IF st.deadline > 0 /\ st.now > st.deadline THEN Throw(counted, TimeoutError)
  ELSE counted

\* checkLimits that does not look at the clock
checkLimits_NoDeadline(st) ==
  LET counted == IF st.maxOps > 0 THEN [st EXCEPT !.opCount = @ + 1] ELSE st IN
  IF st.maxOps > 0 /\ counted.opCount > st.maxOps THEN Throw(counted, LimitsExceededError)
  ELSE counted

\* Interpreter.checkLimits
checkLimits(st) ==
  LET counted == IF st.maxOps > 0 THEN [st EXCEPT !.opCount = @ + 1] ELSE st IN
  IF st.maxOps > 0 /\ counted.opCount > st.maxOps THEN Throw(counted, LimitsExceededError)
  ELSE IF st.deadline > 0 /\ st.now > st.deadline THEN Throw(counted, TimeoutError)
  ELSE counted

\* the clock moves on while a node is evaluated; clock values past MaxTime, which
\* is past every deadline of the model, are not told apart
Elapse(st) == [st EXCEPT !.now = IF @ + st.rate > MaxTime THEN MaxTime ELSE @ + st.rate]

\* a catch that takes whatever was thrown for a ReturnValue
CatchReturnValue_Any(r) == IF r.k = "ok" THEN r ELSE Ok(r, r.v)

\* an application that lets the ReturnValue of its body go on to its caller
CatchReturnValue_Rethrown(r) == r

\* a catch at the run boundary that takes a ReturnValue for an error
CatchReturnValue_AsError(r) ==
  IF r.k = "return" THEN Throw(r, "return outside of a function") ELSE r

\* catch (e) { if (e instanceof ReturnValue) result = e.value; else throw e }
CatchReturnValue(r) == IF r.k = "return" THEN Ok(r, r.v) ELSE r

\* a restore that an error in the body skips
RestoreScope_OnCompletion(st, previousVars) ==
  IF st.k = "throw" THEN st ELSE [st EXCEPT !.variables = previousVars]

\* finally { this.variables = previousVars } of applyFunction
RestoreScope(st, previousVars) == [st EXCEPT !.variables = previousVars]

\* the finally block of evaluateForStatement
RestoreLoopVariable(st, name, previousValue) ==
  [st EXCEPT !.variables = IF previousValue = VUndefined THEN MapDelete(@, name)
                           ELSE MapSet(@, name, previousValue)]

RECURSIVE BindParameters(_, _, _, _)
\* applyFunction: this.variables.set(fn.parameters[i].name, args[i] ?? null)
BindParameters(map, parameters, args, i) ==
  IF i > Len(parameters) THEN map
  ELSE BindParameters(MapSet(map, parameters[i].name, OrNull(Arg(args, i))),
                      parameters, args, i + 1)

\* a FunctionValue as applyFunction reads it: its closure Map as it is now, and
\* which object that Map is
Resolved(fn, st) ==
  [ref |-> fn.closure, parameters |-> fn.parameters, body |-> fn.body,
   closure |-> st.closures[fn.closure]]

\* a lexical scope: the closure and the parameters, nothing of the caller's
EnterScope_Lexical(fn, args, map) == BindParameters(fn.closure, fn.parameters, args, 1)

\* a scope that leaves the closure out: the body reads the live variables
EnterScope_Live(fn, args, map) == BindParameters(map, fn.parameters, args, 1)

\* applyFunction: the closure copied into the variables, the parameters bound
EnterScope(fn, args, map) ==
  BindParameters(MapSetAll(map, fn.closure), fn.parameters, args, 1)

\* applyFunction as the body begins, the parameters bound in the closure Map too
Entered_IntoClosure(st, fn, args) ==
  [st EXCEPT !.variables = EnterScope(fn, args, st.variables),
             !.closures[fn.ref] = BindParameters(@, fn.parameters, args, 1)]

\* applyFunction as the body begins: fn.closure.forEach and the binding of the
\* parameters write to this.variables and to nothing else
Entered(st, fn, args) == [st EXCEPT !.variables = EnterScope(fn, args, st.variables)]

\* Interpreter.createFunctionValue: the new FunctionValue, and the new Map that
\* is its closure
createFunctionValue(node, st) ==
  [fn |-> FunctionValue(node.parameters, node.body, Len(st.closures) + 1),
   closure |-> st.variables]

\* a FunctionValue is the value of its literal; the creation is put on record
Created(st, made) ==
  Ok([st EXCEPT !.closures = Append(@, made.closure),
                !.events = Append(@, [kind |-> "create", env |-> st.variables,
                                      fn |-> made.fn, closure |-> made.closure])],
     made.fn)

\* an assignment that binds a name never declared
evaluateAssignmentStatement_Implicit(node, value) ==
  [value EXCEPT !.variables = MapSet(@, node.name, value.v)]

\* Interpreter.evaluateAssignmentStatement, once node.value gave value.v
evaluateAssignmentStatement(node, value) ==
  IF ~Has(value.variables, node.name)
  THEN Throw(value, "Variable '" \o node.name \o "' not defined")
  ELSE [value EXCEPT !.variables = MapSet(@, node.name, value.v)]

\* Interpreter.evaluateIdentifier
evaluateIdentifier(node, st) ==
  IF Has(st.variables, node.name) THEN st.variables[node.name]
  ELSE IF node.name \in st.functions THEN VNative(node.name)
  ELSE VNull

\* the methods of arrays the model knows
ArrayMethods == {"join"}

\* Array.prototype[name], a function of the host that reads its receiver from this
VUnbound(name) == [t |-> "unbound", name |-> name]

\* (...args) => value.apply(obj, args)
VBound(obj, name) == [t |-> "bound", of |-> obj, name |-> name]

\* (obj as any)[property] ?? null, for obj neither null nor undefined
PropertyOf(obj, property) ==
  IF obj.t = "obj" THEN OrNull(PropGet(obj.v, property))
  ELSE IF obj.t \in {"arr", "str"} /\ property = "length" THEN VNum(Len(obj.v))
  ELSE IF obj.t = "arr" /\ property \in ArrayMethods THEN VUnbound(property)
  ELSE IF obj.t = "fn" /\ property \in {"parameters", "body", "closure"}
       THEN [t |-> "host", of |-> property]    \* a field of the FunctionValue
  ELSE VNull      \* the other methods of arrays and texts are not modelled

\* this.isPlainObject(obj)
isPlainObject(obj) == obj.t = "obj"

\* evaluateMemberExpr, once the receiver is known not to be null or undefined: a
\* method of an object that is not a plain object is bound to it
MemberOf(obj, property) ==
  IF ~isPlainObject(obj) /\ PropertyOf(obj, property).t = "unbound"
  THEN VBound(obj, property)
  ELSE PropertyOf(obj, property)

\* Array.prototype.join.apply(arr, args)
MethodCall(arr, name, args) ==
  VStr(JoinWith([i \in 1..Len(arr.v) |->
                   IF IsNullish(arr.v[i]) THEN "" ELSE JSString(arr.v[i])],
                IF Arg(args, 1) = VUndefined THEN "," ELSE JSString(Arg(args, 1))))

\* evaluateIndexExpr, once receiver and index are known
IndexOf(obj, index) ==
  IF obj.t = "arr"
  THEN LET n == ToNumber(index) IN
       IF n.t = "num" /\ n.v >= 0 /\ n.v < Len(obj.v) THEN OrNull(obj.v[n.v + 1])
       ELSE VNull
  ELSE IF obj.t = "obj" THEN OrNull(PropGet(obj.v, JSString(index)))
  ELSE VNull

HigherOrderNames == {"map", "filter", "reduce", "find", "findIndex"}


RECURSIVE Eval(_, _), EvalStatements(_, _, _), AfterStatement(_, _, _), EvalList(_, _, _, _),
          EvalProperties(_, _, _, _), applyFunction(_, _, _), ForLoop(_, _, _, _),
          MapLoop(_, _, _, _, _), FilterLoop(_, _, _, _, _), ReduceLoop(_, _, _, _, _),
          FindLoop(_, _, _, _), evaluateCallExpr(_, _), evaluateForStatement(_, _),
          evaluateBinaryExpr(_, _), evaluateBlockStatement(_, _),
          evaluateBlockStatement_Scoped(_, _)

\* for (const stmt of statements) { result = this.evaluate(stmt) }, from the
\* i-th statement on; st.v is result
EvalStatements(statements, i, st) ==
  IF i > Len(statements) THEN st
  ELSE AfterStatement(statements, i, Eval(statements[i], st))

\* the loop over statements goes on unless the i-th statement threw
AfterStatement(statements, i, r) ==
  IF r.k # "ok" THEN r ELSE EvalStatements(statements, i + 1, r)

\* nodes.map(n => this.evaluate(n)), from the i-th node on
EvalList(nodes, i, acc, st) ==
  IF i > Len(nodes) THEN Ok(st, VArr(acc))
  ELSE LET r == Eval(nodes[i], st) IN
       IF r.k # "ok" THEN r ELSE EvalList(nodes, i + 1, Append(acc, r.v), r)

\* Interpreter.evaluateObjectLiteral, from the i-th property on
EvalProperties(properties, i, acc, st) ==
  IF i > Len(properties) THEN Ok(st, VObj(acc))
  ELSE LET r == Eval(properties[i].value, st) IN
       IF r.k # "ok" THEN r
       ELSE EvalProperties(properties, i + 1, PropSet(acc, properties[i].key, r.v), r)

\* applyFunction once the body has ended as body: a ReturnValue is caught, the
\* scope is restored, and the application is put on record
Applied(fn, previousVars, entry, body) ==
  [RestoreScope(CatchReturnValue(body), previousVars) EXCEPT !.events = Append(@,
     [kind |-> "apply", before |-> previousVars, fn |-> fn.ref,
      closure |-> fn.closure, closureAfter |-> body.closures[fn.ref],
      parameters |-> {fn.parameters[i].name : i \in 1..Len(fn.parameters)},
      entry |-> entry, exit |-> body.variables, how |-> body.k,
      after |-> RestoreScope(CatchReturnValue(body), previousVars).variables])]

\* applyFunction, fn being the FunctionValue as it is at the call
Applying(fn, args, st) ==
  Applied(fn, st.variables,
          EnterScope(fn, args, st.variables),
          EvalStatements(fn.body.statements, 1, Ok(Entered(st, fn, args), VNull)))

\* Interpreter.applyFunction
applyFunction(fn, args, st) == Applying(Resolved(fn, st), args, st)

RECURSIVE MapLoop_IndexFirst(_, _, _, _, _)
\* a map whose callback is given (index, item)
MapLoop_IndexFirst(arr, callback, i, acc, st) ==
  IF i > Len(arr) THEN Ok(st, VArr(acc))
  ELSE LET r == applyFunction(callback, <<VNum(i - 1), arr[i]>>, st) IN
       IF r.k # "ok" THEN r
       ELSE MapLoop_IndexFirst(arr, callback, i + 1, Append(acc, r.v), r)

\* arr.map((item, index) => this.applyFunction(callback, [item, index]))
MapLoop(arr, callback, i, acc, st) ==
  IF i > Len(arr) THEN Ok(st, VArr(acc))
  ELSE LET r == applyFunction(callback, <<arr[i], VNum(i - 1)>>, st) IN
       IF r.k # "ok" THEN r ELSE MapLoop(arr, callback, i + 1, Append(acc, r.v), r)

\* arr.filter((item, index) => this.isTruthy(this.applyFunction(callback, [item, index])))
FilterLoop(arr, callback, i, acc, st) ==
  IF i > Len(arr) THEN Ok(st, VArr(acc))
  ELSE LET r == applyFunction(callback, <<arr[i], VNum(i - 1)>>, st) IN
       IF r.k # "ok" THEN r
       ELSE FilterLoop(arr, callback, i + 1,
                       IF isTruthy(r.v) THEN Append(acc, arr[i]) ELSE acc, r)

\* arr.reduce((acc, item, index) => this.applyFunction(callback, [acc, item, index]), initial)
ReduceLoop(arr, callback, i, acc, st) ==
  IF i > Len(arr) THEN Ok(st, acc)
  ELSE LET r == applyFunction(callback, <<acc, arr[i], VNum(i - 1)>>, st) IN
       IF r.k # "ok" THEN r ELSE ReduceLoop(arr, callback, i + 1, r.v, r)

\* arr.findIndex(...): the position of the first item the callback accepts, or -1
FindLoop(arr, callback, i, st) ==
  IF i > Len(arr) THEN Ok(st, VNum(-1))
  ELSE LET r == applyFunction(callback, <<arr[i], VNum(i - 1)>>, st) IN
       IF r.k # "ok" THEN r
       ELSE IF isTruthy(r.v) THEN Ok(r, VNum(i - 1))
       ELSE FindLoop(arr, callback, i + 1, r)


\* a binary expression whose && and || leave the right operand alone when the
\* left one decides
evaluateBinaryExpr_ShortCircuit(node, st) ==
  LET left == Eval(node.left, st) IN
  IF left.k # "ok" THEN left
  ELSE IF node.operator \in {"&&", "and"} /\ ~isTruthy(left.v) THEN Ok(left, VBool(FALSE))
  ELSE IF node.operator \in {"||", "or"} /\ isTruthy(left.v) THEN Ok(left, VBool(TRUE))
  ELSE LET right == Eval(node.right, left) IN
       IF right.k # "ok" THEN right
       ELSE LET r == BinaryOp(node.operator, left.v, right.v) IN
            IF r.err # "" THEN Throw(right, r.err) ELSE Ok(right, r.v)

\* Interpreter.evaluateBinaryExpr: left, then right, then the switch
evaluateBinaryExpr(node, st) ==
  LET left == Eval(node.left, st) IN
  IF left.k # "ok" THEN left
  ELSE LET right == Eval(node.right, left) IN
       IF right.k # "ok" THEN right
       ELSE LET r == BinaryOp(node.operator, left.v, right.v) IN
            IF r.err # "" THEN Throw(right, r.err) ELSE Ok(right, r.v)

\* a registry that a variable holding a FunctionValue hides
Registered_Shadowed(calleeName, st) ==
  /\ calleeName \in st.functions
  /\ ~(Has(st.variables, calleeName) /\ st.variables[calleeName].t = "fn")

\* this.functions.has(calleeName)
Registered(calleeName, st) == calleeName \in st.functions

\* Interpreter.evaluateCallExpr
evaluateCallExpr(node, st) ==
  LET evaluated == EvalList(node.args, 1, <<>>, st) IN
  IF evaluated.k # "ok" THEN evaluated
  ELSE
  LET args == evaluated.v.v
      named == node.callee.type = "Identifier"
      calleeName == IF named THEN node.callee.name ELSE ""
  IN
  IF /\ named /\ calleeName \in HigherOrderNames
     /\ Arg(args, 1).t = "arr" /\ Arg(args, 2).t = "fn"
  THEN LET arr == args[1].v
           callback == args[2]
       IN CASE calleeName = "map" -> MapLoop(arr, callback, 1, <<>>, evaluated)
            [] calleeName = "filter" -> FilterLoop(arr, callback, 1, <<>>, evaluated)
            [] calleeName = "reduce" ->
                 ReduceLoop(arr, callback, 1, OrNull(Arg(args, 3)), evaluated)
            [] calleeName = "find" ->
                 LET r == FindLoop(arr, callback, 1, evaluated) IN
                 IF r.k # "ok" THEN r
                 ELSE IF r.v.v < 0 THEN Ok(r, VNull) ELSE Ok(r, OrNull(arr[r.v.v + 1]))
            [] calleeName = "findIndex" -> FindLoop(arr, callback, 1, evaluated)
  ELSE IF named /\ Registered(calleeName, evaluated)
  THEN LET result == NativeCall(calleeName, args) IN
       IF calleeName = "print"
       THEN Ok([evaluated EXCEPT !.output = Append(@, JSString(result))], VNull)
       ELSE Ok(evaluated, result)
  ELSE LET callee == Eval(node.callee, evaluated) IN
       IF callee.k # "ok" THEN callee
       ELSE IF callee.v.t = "fn" THEN applyFunction(callee.v, args, callee)
       ELSE IF callee.v.t = "native" THEN Ok(callee, NativeCall(callee.v.name, args))
       ELSE IF callee.v.t = "bound"
            THEN Ok(callee, MethodCall(callee.v.of, callee.v.name, args))
       ELSE IF callee.v.t = "unbound"      \* called with this undefined
            THEN Throw(callee, "Array.prototype." \o callee.v.name
                                 \o " called on null or undefined")
       ELSE Throw(callee, (IF named THEN calleeName ELSE "value") \o " is not a function")

\* a block with an environment of its own: what it binds ends with it
evaluateBlockStatement_Scoped(node, st) ==
  RestoreScope(EvalStatements(node.statements, 1, Ok(st, VNull)), st.variables)

\* Interpreter.evaluateBlockStatement
evaluateBlockStatement(node, st) == EvalStatements(node.statements, 1, Ok(st, VNull))

\* the loop of evaluateForStatement, from the i-th item on; st.v is result
ForLoop(node, items, i, st) ==
  IF i > Len(items) THEN st
  ELSE LET bound == [st EXCEPT !.variables = MapSet(@, node.variable.name, items[i])]
           r == evaluateBlockStatement(node.body, bound)
       IN  IF r.k # "ok" THEN r ELSE ForLoop(node, items, i + 1, r)

\* Interpreter.evaluateForStatement
evaluateForStatement(node, st) ==
  LET iterable == Eval(node.iterable, st) IN
  IF iterable.k # "ok" THEN iterable
  ELSE IF iterable.v.t # "arr"
  THEN Throw(iterable, "for loop expects an array, got " \o TypeOf(iterable.v))
  ELSE LET name == node.variable.name
           previousValue == MapGet(iterable.variables, name)
           loop == ForLoop(node, iterable.v.v, 1, Ok(iterable, VNull))
           restored == RestoreLoopVariable(loop, name, previousValue)
       IN  [restored EXCEPT !.events = Append(@,
              [kind |-> "for", name |-> name, had |-> Has(iterable.variables, name),
               before |-> iterable.variables, items |-> Len(iterable.v.v),
               exit |-> loop.variables, how |-> loop.k, after |-> restored.variables])]


\* Interpreter.evaluate: checkLimits, then the switch on node.type
Eval(node, st) ==
  LET checked == checkLimits([st EXCEPT !.evals = @ + 1]) IN
  IF checked.k # "ok" THEN [checked EXCEPT !.raised = Append(@, checked.evals)]
  ELSE
  LET s == Elapse(checked) IN
  CASE node.type = "NumberLiteral" ->
         Ok(s, IF node.fraction = <<>> THEN VNum(node.value) ELSE VInexact)
    [] node.type = "StringLiteral" -> Ok(s, VStr(node.value))
    [] node.type = "BooleanLiteral" -> Ok(s, VBool(node.value))
    [] node.type = "NullLiteral" -> Ok(s, VNull)
    [] node.type = "Identifier" -> Ok(s, evaluateIdentifier(node, s))
    [] node.type = "BinaryExpr" -> evaluateBinaryExpr(node, s)
    [] node.type = "UnaryExpr" ->
         LET operand == Eval(node.operand, s) IN
         IF operand.k # "ok" THEN operand
         ELSE LET r == UnaryOp(node.operator, operand.v) IN
              IF r.err # "" THEN Throw(operand, r.err) ELSE Ok(operand, r.v)
    [] node.type = "CallExpr" -> evaluateCallExpr(node, s)
    [] node.type = "MemberExpr" ->
         LET obj == Eval(node.object, s) IN
         IF obj.k # "ok" THEN obj
         ELSE IF IsNullish(obj.v)
              THEN Throw(obj, "Cannot read property '" \o node.property \o "' of null")
              ELSE Ok(obj, MemberOf(obj.v, node.property))
    [] node.type = "SafeMemberExpr" ->
         LET obj == Eval(node.object, s) IN
         IF obj.k # "ok" THEN obj
         ELSE IF IsNullish(obj.v) THEN Ok(obj, VNull)
              ELSE Ok(obj, PropertyOf(obj.v, node.property))
    [] node.type = "ElvisExpr" ->
         LET left == Eval(node.left, s) IN
         IF left.k # "ok" THEN left
         ELSE IF ElvisLeft(left.v) THEN left
              ELSE Eval(node.right, left)
    [] node.type = "ArrayLiteral" -> EvalList(node.elements, 1, <<>>, s)
    [] node.type = "ObjectLiteral" -> EvalProperties(node.properties, 1, <<>>, s)
    [] node.type = "IndexExpr" ->
         LET obj == Eval(node.object, s) IN
         IF obj.k # "ok" THEN obj
         ELSE LET index == Eval(node.index, obj) IN
              IF index.k # "ok" THEN index
              ELSE Ok(index, IndexOf(obj.v, index.v))
    [] node.type = "FunctionLiteral" -> Created(s, createFunctionValue(node, s))
    [] node.type = "LetStatement" ->
         LET value == Eval(node.value, s) IN
         IF value.k # "ok" THEN value
         ELSE [value EXCEPT !.variables = MapSet(@, node.name, value.v)]
    [] node.type = "AssignmentStatement" ->
         LET value == Eval(node.value, s) IN
         IF value.k # "ok" THEN value
         ELSE evaluateAssignmentStatement(node, value)
    [] node.type = "IfStatement" ->
         LET condition == Eval(node.condition, s) IN
         IF condition.k # "ok" THEN condition
         ELSE IF isTruthy(condition.v) THEN Eval(node.thenBranch, condition)
              ELSE IF node.elseBranch # NullNode THEN Eval(node.elseBranch, condition)
              ELSE Ok(condition, VNull)
    [] node.type = "ForStatement" -> evaluateForStatement(node, s)
    [] node.type = "ReturnStatement" ->
         IF node.value = NullNode THEN ReturnSignal(s, VNull)
         ELSE LET value == Eval(node.value, s) IN
              IF value.k # "ok" THEN value ELSE ReturnSignal(value, value.v)
    [] node.type = "BlockStatement" -> evaluateBlockStatement(node, s)
    [] node.type = "Program" -> EvalStatements(node.statements, 1, Ok(s, VNull))
    [] node.type = "ExpressionStatement" -> Eval(node.expression, s)
    [] node.type = "null" -> Throw(s, "Cannot read properties of null (reading 'type')")
    [] OTHER -> Throw(s, "Unknown node type: " \o node.type)

\* a fresh Interpreter's fields, in the shape Eval threads
NewInterpreter ==
  [variables |-> EmptyMap, closures |-> <<>>, functions |-> NativeNames, output |-> <<>>,
   opCount |-> 0, maxOps |-> 0, deadline |-> 0, now |-> 1, rate |-> 0,
   k |-> "ok", v |-> VNull, err |-> "", evals |-> 0, events |-> <<>>, raised |-> <<>>]

\* Interpreter.run, in one piece: the output and result returned, or the error
\* thrown
run(program, st) ==
  CatchReturnValue(
    EvalStatements(program.statements, 1, Ok([st EXCEPT !.output = <<>>], VNull)))


(***************************************************************************)
(* Programs the interpreter is run on.                                     *)
(***************************************************************************)
\* bodies of function literals: a read of a, an assignment to a and a let, a let
\* and then a runtime error, a print and a bare return, a return out of a loop
FunctionBodies ==
  { <<ReturnStatement(Identifier("a"))>>,
    <<AssignmentStatement("a", Identifier("x")), LetStatement("b", NumberLiteral(2))>>,
    <<LetStatement("a", NumberLiteral(7)),
      ExpressionStatement(MemberExpr(Identifier("missing"), "y"))>>,
    <<ExpressionStatement(CallExpr(Identifier("print"), <<Identifier("a")>>)),
      ReturnStatement(NullNode)>>,
    <<ForStatement(Identifier("a"),
                   ArrayLiteral(<<NumberLiteral(1), NumberLiteral(2)>>),
                   BlockStatement(<<ReturnStatement(Identifier("a"))>>))>> }

ParameterLists == { <<Identifier("x")>>, <<Identifier("a")>> }

\* let a = 1; let f = fn(..) {..}; [a = 5;] print(f(3)); print(a)
ClosureProgram(parameters, body, reassign) ==
  Program(<<LetStatement("a", NumberLiteral(1)),
            LetStatement("f", FunctionLiteral(parameters, BlockStatement(body)))>>
          \o (IF reassign THEN <<AssignmentStatement("a", NumberLiteral(5))>> ELSE <<>>)
          \o <<ExpressionStatement(CallExpr(Identifier("print"),
                 <<CallExpr(Identifier("f"), <<NumberLiteral(3)>>)>>)),
               ExpressionStatement(CallExpr(Identifier("print"), <<Identifier("a")>>))>>)

\* what may precede a loop over n: nothing, a binding of n, a binding of n to the
\* undefined jsonStringify() returns
LoopPreludes ==
  { <<>>,
    <<LetStatement("n", NumberLiteral(9))>>,
    <<LetStatement("n", CallExpr(Identifier("jsonStringify"), <<>>))>> }

LoopIterables ==
  { ArrayLiteral(<<>>), ArrayLiteral(<<NumberLiteral(1), NumberLiteral(2)>>) }

\* loop bodies: a print, a reassignment of the loop variable, a return, an error
LoopBodies ==
  { <<ExpressionStatement(CallExpr(Identifier("print"), <<Identifier("n")>>))>>,
    <<AssignmentStatement("n", NumberLiteral(7))>>,
    <<ReturnStatement(Identifier("n"))>>,
    <<ExpressionStatement(MemberExpr(Identifier("missing"), "y"))>> }

\* [let n = ..;] for (n in ..) {..}; isNull(n)
LoopProgram(prelude, iterable, body) ==
  Program(prelude
          \o <<ForStatement(Identifier("n"), iterable, BlockStatement(body)),
               ExpressionStatement(CallExpr(Identifier("isNull"), <<Identifier("n")>>))>>)

\* callbacks of the higher-order calls: fn(x) { x > 1 }, fn(x, y) { n = x + y }
Callbacks ==
  { FunctionLiteral(<<Identifier("x")>>,
      BlockStatement(<<ExpressionStatement(
        BinaryExpr(">", Identifier("x"), NumberLiteral(1)))>>)),
    FunctionLiteral(<<Identifier("x"), Identifier("y")>>,
      BlockStatement(<<AssignmentStatement("n",
        BinaryExpr("+", Identifier("x"), Identifier("y")))>>)) }

\* map([1, 2], fn..) and the like
HigherOrderProgram(name, callback) ==
  Program(<<ExpressionStatement(CallExpr(Identifier(name),
              <<ArrayLiteral(<<NumberLiteral(1), NumberLiteral(2)>>), callback>>))>>)

\* what a return statement at the top level returns: nothing, a number, a
\* variable, a call that prints
ReturnValues ==
  { NullNode, NumberLiteral(7), Identifier("n"),
    CallExpr(Identifier("print"), <<NumberLiteral(3)>>) }

\* print(1); return ..; print(2)
ReturnProgram(value) ==
  Program(<<ExpressionStatement(CallExpr(Identifier("print"), <<NumberLiteral(1)>>)),
            ReturnStatement(value),
            ExpressionStatement(CallExpr(Identifier("print"), <<NumberLiteral(2)>>))>>)

\* left operands of an elvis expression: null, falsy values, a number, a
\* variable of the host
ElvisLefts ==
  { NullLiteral, NumberLiteral(0), BooleanLiteral(FALSE), StringLiteral(""),
    NumberLiteral(5), Identifier("n") }

\* sideEffect(): a call that prints
SideEffect == CallExpr(Identifier("print"), <<NumberLiteral(9)>>)

\* L ?: sideEffect()
ElvisProgram(l) == Program(<<ExpressionStatement(ElvisExpr(l, SideEffect))>>)

\* the operators of evaluateBinaryExpr
BinaryOperators == ArithOps \cup CompareOps \cup {"==", "!=", "&&", "and", "||", "or"}

\* left operands of a binary expression: false, true, a call that prints
BinaryLefts ==
  { BooleanLiteral(FALSE), BooleanLiteral(TRUE),
    CallExpr(Identifier("print"), <<NumberLiteral(1)>>) }

\* L op sideEffect()
BinaryProgram(op, l) == Program(<<ExpressionStatement(BinaryExpr(op, l, SideEffect))>>)

\* names read and assigned: one never bound, the one the host may bind
Names == {"u", "n"}

\* NAME = sideEffect()
AssignProgram(name) == Program(<<AssignmentStatement(name, SideEffect)>>)

\* NAME
ReadProgram(name) == Program(<<ExpressionStatement(Identifier(name))>>)

\* let a = 1; let f = fn(..) {..}; let g = fn(a) { a = 2; let b = 3 }; f(3); g(0);
\* a = 5; for (a in [8]) { f(a) }; let a = 6; print(f(4))
TwiceProgram(parameters, body) ==
  Program(<<LetStatement("a", NumberLiteral(1)),
            LetStatement("f", FunctionLiteral(parameters, BlockStatement(body))),
            LetStatement("g", FunctionLiteral(<<Identifier("a")>>, BlockStatement(
              <<AssignmentStatement("a", NumberLiteral(2)),
                LetStatement("b", NumberLiteral(3))>>))),
            ExpressionStatement(CallExpr(Identifier("f"), <<NumberLiteral(3)>>)),
            ExpressionStatement(CallExpr(Identifier("g"), <<NumberLiteral(0)>>)),
            AssignmentStatement("a", NumberLiteral(5)),
            ForStatement(Identifier("a"), ArrayLiteral(<<NumberLiteral(8)>>),
              BlockStatement(<<ExpressionStatement(
                CallExpr(Identifier("f"), <<Identifier("a")>>))>>)),
            LetStatement("a", NumberLiteral(6)),
            ExpressionStatement(CallExpr(Identifier("print"),
              <<CallExpr(Identifier("f"), <<NumberLiteral(4)>>)>>))>>)

\* print(99): what must not be reached after a return
Marker == ExpressionStatement(CallExpr(Identifier("print"), <<NumberLiteral(99)>>))

\* where in a function body the return statement is
Depths == {"none", "direct", "if", "block", "for", "deep"}

\* a statement s inside an if, a block, a for-loop, or all of them
Wrapped(depth, s) ==
  CASE depth = "direct" -> <<s>>
    [] depth = "if" ->
         <<IfStatement(BooleanLiteral(TRUE), BlockStatement(<<s>>), NullNode)>>
    [] depth = "block" -> <<BlockStatement(<<s>>)>>
    [] depth = "for" ->
         <<ForStatement(Identifier("i"), ArrayLiteral(<<NumberLiteral(1), NumberLiteral(2)>>),
                        BlockStatement(<<s, Marker>>))>>
    [] depth = "deep" ->
         <<ForStatement(Identifier("i"), ArrayLiteral(<<NumberLiteral(1), NumberLiteral(2)>>),
             BlockStatement(<<IfStatement(BooleanLiteral(TRUE),
                                BlockStatement(<<BlockStatement(<<s>>)>>), NullNode),
                              Marker>>))>>

\* a function body that returns value at that depth, print(99) after it; at
\* depth "none" the body that gives value as its last statement, without return
ReturningBody(depth, value) ==
  IF depth = "none"
  THEN IF value = NullNode THEN <<>> ELSE <<ExpressionStatement(value)>>
  ELSE Wrapped(depth, ReturnStatement(value)) \o <<Marker>>

\* what the functions return: nothing, their parameter
Returned_Values == { NullNode, Identifier("x") }

\* let f = fn(x) {..}; let g = fn() { print(f(7)); print(5); 3 }; print(g()); print(1)
FunctionProgram(depth, value) ==
  Program(<<LetStatement("f", FunctionLiteral(<<Identifier("x")>>,
              BlockStatement(ReturningBody(depth, value)))),
            LetStatement("g", FunctionLiteral(<<>>, BlockStatement(
              <<ExpressionStatement(CallExpr(Identifier("print"),
                  <<CallExpr(Identifier("f"), <<NumberLiteral(7)>>)>>)),
                ExpressionStatement(CallExpr(Identifier("print"), <<NumberLiteral(5)>>)),
                ExpressionStatement(NumberLiteral(3))>>))),
            ExpressionStatement(CallExpr(Identifier("print"),
              <<CallExpr(Identifier("g"), <<>>)>>)),
            ExpressionStatement(CallExpr(Identifier("print"), <<NumberLiteral(1)>>))>>)

\* print(map([1, 2], fn(x) {..})); print(1), and the like
CallbackProgram(name, depth, value) ==
  Program(<<ExpressionStatement(CallExpr(Identifier("print"),
              <<CallExpr(Identifier(name),
                  <<ArrayLiteral(<<NumberLiteral(1), NumberLiteral(2)>>),
                    FunctionLiteral(<<Identifier("x")>>,
                      BlockStatement(ReturningBody(depth, value)))>>)>>)),
            ExpressionStatement(CallExpr(Identifier("print"), <<NumberLiteral(1)>>))>>)

\* programs that are inside a function application, a for-loop or a callback
\* within a few evaluations: fn() { let m = 1 }(); for (i in [1]) { let m = i };
\* map([1], fn(x) { for (i in [x]) { let m = i } })
LimitPrograms ==
  { Program(<<ExpressionStatement(CallExpr(
                FunctionLiteral(<<>>, BlockStatement(<<LetStatement("m", NumberLiteral(1))>>)),
                <<>>))>>),
    Program(<<ForStatement(Identifier("i"), ArrayLiteral(<<NumberLiteral(1)>>),
                BlockStatement(<<LetStatement("m", Identifier("i"))>>))>>),
    Program(<<ExpressionStatement(CallExpr(Identifier("map"),
                <<ArrayLiteral(<<NumberLiteral(1)>>),
                  FunctionLiteral(<<Identifier("x")>>, BlockStatement(
                    <<ForStatement(Identifier("i"), ArrayLiteral(<<Identifier("x")>>),
                        BlockStatement(<<LetStatement("m", Identifier("i"))>>))>>))>>))>>) }

\* receivers of a member access: a plain object, an array, a text, a variable
\* of the host
Receivers ==
  { ObjectLiteral(<<[key |-> "a", value |-> NumberLiteral(1)]>>),
    ArrayLiteral(<<NumberLiteral(1), NumberLiteral(2)>>),
    StringLiteral("ab"),
    Identifier("n") }

\* the properties looked up: a key of the object, length, a method of arrays
PropertyNames == {"a", "length", "join"}

\* recv.name or recv?.name, read or called without arguments
MemberProgram(safe, recv, name, called) ==
  Program(<<ExpressionStatement(
    IF called
    THEN CallExpr(IF safe THEN SafeMemberExpr(recv, name) ELSE MemberExpr(recv, name), <<>>)
    ELSE IF safe THEN SafeMemberExpr(recv, name) ELSE MemberExpr(recv, name))>>)

\* the arrays given to map, filter, reduce, find and findIndex, as their numbers
Arrays == { <<>>, <<1, 2>>, <<2, 0>> }

\* [1, 2]
ArrayOf(items) == ArrayLiteral([i \in 1..Len(items) |-> NumberLiteral(items[i])])

\* what the callback yields: whether its first argument exceeds 1, its first
\* argument, its second argument, null
Results == {"gt1", "first", "second", "none"}

ResultExpr(r) ==
  CASE r = "gt1" -> BinaryExpr(">", Identifier("a"), NumberLiteral(1))
    [] r = "first" -> Identifier("a")
    [] r = "second" -> Identifier("b")
    [] r = "none" -> NullLiteral

\* fn(a, b, c) { print(a); print(b); print(c); let m = a; .. }
Recorder(r) ==
  FunctionLiteral(<<Identifier("a"), Identifier("b"), Identifier("c")>>,
    BlockStatement(<<ExpressionStatement(CallExpr(Identifier("print"), <<Identifier("a")>>)),
                     ExpressionStatement(CallExpr(Identifier("print"), <<Identifier("b")>>)),
                     ExpressionStatement(CallExpr(Identifier("print"), <<Identifier("c")>>)),
                     LetStatement("m", Identifier("a")),
                     ExpressionStatement(ResultExpr(r))>>))

\* the arguments after the callback: none, or an initial value of 5
Initials == { <<>>, <<5>> }

\* reduce([1, 2], fn(a, b, c) {..}, 5) and the like
RecorderProgram(name, items, r, initial) ==
  Program(<<ExpressionStatement(CallExpr(Identifier(name),
              <<ArrayOf(items), Recorder(r)>> \o ArrayOf(initial).elements))>>)

\* where the let statements are: in the branches of an if, in a block, in the
\* body of a for-loop, in all of them
Blocks == {"then", "else", "block", "for", "deep"}

\* the names bound: one the host may have bound, one nobody has bound
LetNames == {"n", "m"}

\* let name = 1; let name = name + 1
BindTwice(name) ==
  <<LetStatement(name, NumberLiteral(1)),
    LetStatement(name, BinaryExpr("+", Identifier(name), NumberLiteral(1)))>>

\* for (i in [1, 2]) { let name = i }
BindInLoop(name) ==
  ForStatement(Identifier("i"), ArrayLiteral(<<NumberLiteral(1), NumberLiteral(2)>>),
               BlockStatement(<<LetStatement(name, Identifier("i"))>>))

\* if (true) { let m = 1; let m = m + 1 }; print(m), and the like
BlockProgram(block, name) ==
  Program(<<CASE block = "then" ->
                   IfStatement(BooleanLiteral(TRUE), BlockStatement(BindTwice(name)), NullNode)
              [] block = "else" ->
                   IfStatement(BooleanLiteral(FALSE), BlockStatement(<<>>),
                               BlockStatement(BindTwice(name)))
              [] block = "block" -> BlockStatement(BindTwice(name))
              [] block = "for" -> BindInLoop(name)
              [] block = "deep" ->
                   IfStatement(BooleanLiteral(TRUE),
                     BlockStatement(<<BlockStatement(<<BindInLoop(name)>>)>>), NullNode),
            ExpressionStatement(CallExpr(Identifier("print"), <<Identifier(name)>>))>>)

\* names of registered functions and of higher-order calls
CallNames == {"size", "first", "print", "map", "find"}

\* let size = fn(a, b) { 7 }; size([1, 2], fn(x) { x }), without the let, and
\* with the name alone in place of the call
ShadowProgram(name, shadowed, called) ==
  Program((IF shadowed
           THEN <<LetStatement(name,
                    FunctionLiteral(<<Identifier("a"), Identifier("b")>>,
                      BlockStatement(<<ExpressionStatement(NumberLiteral(7))>>)))>>
           ELSE <<>>)
          \o <<ExpressionStatement(
                 IF called
                 THEN CallExpr(Identifier(name),
                        <<ArrayLiteral(<<NumberLiteral(1), NumberLiteral(2)>>),
                          FunctionLiteral(<<Identifier("x")>>,
                            BlockStatement(<<ExpressionStatement(Identifier("x"))>>))>>)
                 ELSE Identifier(name))>>)

\* the arguments of the recursive function
Arguments == {0, 1, 2, 3}

\* let factorial = fn(n) { if (n <= 1) { return 1 }; return n * factorial(n - 1) }
\* print(factorial(3)), the product written either way round
RecursiveProgram(callFirst, argument) ==
  Program(<<LetStatement("factorial", FunctionLiteral(<<Identifier("n")>>, BlockStatement(
              <<IfStatement(BinaryExpr("<=", Identifier("n"), NumberLiteral(1)),
                            BlockStatement(<<ReturnStatement(NumberLiteral(1))>>), NullNode),
                ReturnStatement(
                  IF callFirst
                  THEN BinaryExpr("*",
                         CallExpr(Identifier("factorial"),
                                  <<BinaryExpr("-", Identifier("n"), NumberLiteral(1))>>),
                         Identifier("n"))
                  ELSE BinaryExpr("*", Identifier("n"),
                         CallExpr(Identifier("factorial"),
                                  <<BinaryExpr("-", Identifier("n"), NumberLiteral(1))>>)))>>))),
            ExpressionStatement(CallExpr(Identifier("print"),
              <<CallExpr(Identifier("factorial"), <<NumberLiteral(argument)>>)>>))>>)

\* let f = fn() { m }; let g = fn(m) { f() }; let m = 5
\* print(f()); print(g(3)); print(m)
CallerProgram ==
  Program(<<LetStatement("f", FunctionLiteral(<<>>,
              BlockStatement(<<ExpressionStatement(Identifier("m"))>>))),
            LetStatement("g", FunctionLiteral(<<Identifier("m")>>,
              BlockStatement(<<ExpressionStatement(CallExpr(Identifier("f"), <<>>))>>))),
            LetStatement("m", NumberLiteral(5)),
            ExpressionStatement(CallExpr(Identifier("print"),
              <<CallExpr(Identifier("f"), <<>>)>>)),
            ExpressionStatement(CallExpr(Identifier("print"),
              <<CallExpr(Identifier("g"), <<NumberLiteral(3)>>)>>)),
            ExpressionStatement(CallExpr(Identifier("print"), <<Identifier("m")>>))>>)

Programs ==
  {ClosureProgram(p, b, r) : p \in ParameterLists, b \in FunctionBodies, r \in BOOLEAN}
  \cup {MemberProgram(s, r, n, c) : s \in BOOLEAN, r \in Receivers, n \in PropertyNames,
                                   c \in BOOLEAN}
  \cup LimitPrograms
  \cup {RecursiveProgram(c, a) : c \in BOOLEAN, a \in Arguments}
  \cup {CallerProgram}
  \cup {ShadowProgram(n, s, c) : n \in CallNames, s \in BOOLEAN, c \in BOOLEAN}
  \cup {BlockProgram(b, n) : b \in Blocks, n \in LetNames}
  \cup {RecorderProgram(n, a, r, i) : n \in HigherOrderNames, a \in Arrays, r \in Results,
                                     i \in Initials}
  \cup {FunctionProgram(d, v) : d \in Depths, v \in Returned_Values}
  \cup {CallbackProgram(n, d, v) : n \in HigherOrderNames, d \in Depths, v \in Returned_Values}
  \cup {TwiceProgram(p, b) : p \in ParameterLists, b \in FunctionBodies}
  \cup {AssignProgram(name) : name \in Names}
  \cup {ReadProgram(name) : name \in Names}
  \cup {BinaryProgram(op, l) : op \in BinaryOperators, l \in BinaryLefts}
  \cup {ElvisProgram(l) : l \in ElvisLefts}
  \cup {ReturnProgram(v) : v \in ReturnValues}
  \cup {LoopProgram(p, i, b) : p \in LoopPreludes, i \in LoopIterables, b \in LoopBodies}
  \cup {HigherOrderProgram(n, c) : n \in HigherOrderNames, c \in Callbacks}
  \cup {Program(<<ForStatement(Identifier("n"), NumberLiteral(3), BlockStatement(<<>>))>>)}

\* the programs run on an Interpreter that is used again: none to five evaluations
\* at the top level, in a loop body, in a function body
ShortPrograms ==
  { Program(<<>>),
    Program(<<ExpressionStatement(NumberLiteral(1))>>),
    Program(<<ExpressionStatement(CallExpr(Identifier("print"),
                <<BinaryExpr("+", NumberLiteral(1), NumberLiteral(2))>>))>>),
    Program(<<ForStatement(Identifier("n"), ArrayLiteral(<<NumberLiteral(1)>>),
                BlockStatement(<<LetStatement("m", Identifier("n"))>>))>>),
    Program(<<ExpressionStatement(CallExpr(
                FunctionLiteral(<<>>, BlockStatement(<<LetStatement("m", NumberLiteral(1))>>)),
                <<>>))>>) }

(***************************************************************************)
(* The Interpreter before the host has called it.                          *)
(***************************************************************************)
\* no run yet
NoRun ==
  [program |-> Program(<<>>), k |-> "none", err |-> "", result |-> VNull, evals |-> 0,
   needed |-> 0, maxOps |-> 0, deadline |-> 0, opBefore |-> 0, nowBefore |-> 0,
   before |-> EmptyMap, after |-> EmptyMap, output |-> <<>>, events |-> <<>>,
   closures |-> <<>>, raised |-> <<>>]

\* no call of execute() yet
NotExecuted ==
  [k |-> "none", source |-> <<>>, useCache |-> TRUE, hit |-> FALSE,
   output |-> <<>>, value |-> VNull, errors |-> <<>>, thrown |-> "",
   failed |-> FALSE, printed |-> <<>>, touched |-> FALSE]

\* new Interpreter()
NewFields ==
  /\ executed = NotExecuted
  /\ variables = EmptyMap
  /\ closures = <<>>
  /\ output = <<>>
  /\ opCount = 0
  /\ maxOps = 0
  /\ deadline = 0
  /\ now = 1
  /\ runs = 0
  /\ last = NoRun

(***************************************************************************)
(* The cache as a state machine.                                           *)
(***************************************************************************)
\* "12" and "3p" hash to one key; "7" and "8" have keys of their own
CacheSources == {<<"1", "2">>, <<"3", "p">>, <<"7">>, <<"8">>}

\* the source texts given to execute():
\*   @                        (1
\*   print(1) x = 2           print(1+2)       return 7; print(1)
ExecSources ==
  { <<"@">>,
    <<"(", "1">>,
    <<"p", "r", "i", "n", "t", "(", "1", ")", " ", "x", " ", "=", " ", "2">>,
    <<"p", "r", "i", "n", "t", "(", "1", "+", "2", ")">>,
    <<"r", "e", "t", "u", "r", "n", " ", "7", ";", " ", "p", "r", "i", "n", "t", "(", "1", ")">> }

Sources == CacheSources \cup ExecSources

\* the key of each of the source texts
Keys == [s \in Sources |-> Hash(s)]

CachePrograms ==
  <<Program(<<ExpressionStatement(NumberLiteral(12))>>),
    Program(<<ExpressionStatement(NumberLiteral(3)), ExpressionStatement(Identifier("p"))>>)>>

CacheInit ==
  /\ capacity \in 0..MaxCapacity
  /\ cache = <<>>
  /\ recency = <<>>
  /\ live = [s \in Sources |-> Undefined]
  /\ lastOp = [op |-> "none", source |-> <<>>, ret |-> Undefined, evicted |-> <<>>,
               afterSet |-> FALSE, replaced |-> <<>>, sizeBefore |-> 0]
  /\ NewFields

\* the last call was set(source, ...)
JustSet(source) == lastOp.op = "set" /\ lastOp.source = source

\* the cache and its history after a get(source) that did r
Got(source, r) ==
  /\ cache' = r.entries
  /\ recency' = IF r.ret # Undefined
                 THEN Append(SeqWithout(recency, Keys[source]), Keys[source])
                 ELSE recency
  /\ lastOp' = [op |-> "get", source |-> source, ret |-> r.ret, evicted |-> <<>>,
                afterSet |-> JustSet(source), replaced |-> <<>>,
                sizeBefore |-> 0]
  /\ UNCHANGED <<capacity, live>>

Get(source) ==
  /\ Got(source, ASTCache_get(cache, source))
  /\ UNCHANGED <<interpVars, execVars>>

\* the cache and its history after a set(source, program) that did r
DidSet(source, program, r) ==
  LET key == Keys[source]
      gone == {r.evicted[i] : i \in 1..Len(r.evicted)}
      rest == SeqWithout(recency, key)
  IN  /\ cache' = r.entries
      /\ recency' = Append(SelectSeq(rest, LAMBDA k : k \notin gone), key)
      /\ live' = [s \in Sources |->
                    IF s = source THEN program
                    ELSE IF Keys[s] = key \/ Keys[s] \in gone THEN Undefined
                    ELSE live[s]]
      /\ lastOp' = [op |-> "set", source |-> source, ret |-> Undefined,
                    evicted |-> r.evicted, afterSet |-> JustSet(source),
                    replaced |-> IF HasKey(cache, key) THEN EntryOf(cache, key).source
                                 ELSE <<>>,
                    sizeBefore |-> Len(cache)]
      /\ UNCHANGED capacity

Set(source, p) ==
  /\ DidSet(source, CachePrograms[p],
            ASTCache_set(cache, capacity, source, CachePrograms[p]))
  /\ UNCHANGED <<interpVars, execVars>>

Clear ==
  /\ cache' = ASTCache_clear(cache)
  /\ recency' = <<>>
  /\ live' = [s \in Sources |-> Undefined]
  /\ lastOp' = [op |-> "clear", source |-> <<>>, ret |-> Undefined, evicted |-> <<>>,
                afterSet |-> FALSE, replaced |-> <<>>, sizeBefore |-> 0]
  /\ UNCHANGED capacity
  /\ UNCHANGED <<interpVars, execVars>>

CacheNext ==
  \/ \E s \in CacheSources : Get(s)
  \/ \E s \in CacheSources, p \in 1..Len(CachePrograms) : Set(s, p)
  \/ Clear

SpecCache == CacheInit /\ [][CacheNext]_vars

(***************************************************************************)
(* The Interpreter as a state machine: the host configures it and runs     *)
(* programs on it.                                                         *)
(***************************************************************************)
MaxQuota == 4
MaxDeadline == 2

\* a quota and a deadline that a run reaches inside its functions and loops
DeepQuota == 9
DeepDeadline == 3
MaxRuns == 2

HostValues == {VUndefined, VNum(9)}

\* the cache, unused
NoCache ==
  /\ capacity = 0
  /\ cache = <<>>
  /\ recency = <<>>
  /\ live = [s \in Sources |-> Undefined]
  /\ lastOp = [op |-> "none", source |-> <<>>, ret |-> Undefined, evicted |-> <<>>,
               afterSet |-> FALSE, replaced |-> <<>>, sizeBefore |-> 0]

InterpInit == NewFields /\ NoCache

\* a run that begins with the counter at 0
Fields_Reset(rate) ==
  [variables |-> variables, closures |-> closures, functions |-> NativeNames,
   output |-> output,
   opCount |-> 0, maxOps |-> maxOps, deadline |-> deadline, now |-> now,
   rate |-> rate, k |-> "ok", v |-> VNull, err |-> "", evals |-> 0, events |-> <<>>,
   raised |-> <<>>]

\* the Interpreter's fields, in the shape Eval threads
Fields(rate) ==
  [variables |-> variables, closures |-> closures, functions |-> NativeNames,
   output |-> output,
   opCount |-> opCount, maxOps |-> maxOps, deadline |-> deadline, now |-> now,
   rate |-> rate, k |-> "ok", v |-> VNull, err |-> "", evals |-> 0, events |-> <<>>,
   raised |-> <<>>]

\* Interpreter.setVariable
setVariable(name, value) ==
  /\ variables' = MapSet(variables, name, value)
  /\ UNCHANGED <<closures, output, opCount, maxOps, deadline, now, runs, last>>
  /\ UNCHANGED <<cacheVars, execVars>>

\* Interpreter.setMaxOperations
setMaxOperations(quota) ==
  /\ maxOps' = quota
  /\ opCount' = 0
  /\ UNCHANGED <<variables, closures, output, deadline, now, runs, last>>
  /\ UNCHANGED <<cacheVars, execVars>>

\* Interpreter.setDeadline
setDeadline(time) ==
  /\ deadline' = time
  /\ UNCHANGED <<variables, closures, output, opCount, maxOps, now, runs, last>>
  /\ UNCHANGED <<cacheVars, execVars>>

\* time passes between two calls of the host
Tick ==
  /\ now < MaxTime
  /\ now' = now + 1
  /\ UNCHANGED <<variables, closures, output, opCount, maxOps, deadline, runs, last>>
  /\ UNCHANGED <<cacheVars, execVars>>

\* what a run leaves: r is how it ended, free how it ends with no limit set
Ran(program, r, free) ==
  /\ variables' = r.variables
  /\ closures' = r.closures
  /\ output' = r.output
  /\ opCount' = r.opCount
  /\ now' = r.now
  /\ runs' = runs + 1
  /\ last' = [program |-> program, k |-> r.k, err |-> r.err, result |-> r.v,
              evals |-> r.evals, needed |-> free.evals, maxOps |-> maxOps,
              deadline |-> deadline, opBefore |-> opCount, nowBefore |-> now,
              before |-> variables, after |-> r.variables, output |-> r.output,
              events |-> r.events, closures |-> r.closures, raised |-> r.raised]
  /\ UNCHANGED <<maxOps, deadline>>
  /\ UNCHANGED <<cacheVars, execVars>>

\* Interpreter.run(program), each node evaluation taking rate units of time
Run(program, rate) ==
  Ran(program, run(program, Fields(rate)),
      run(program, [Fields(rate) EXCEPT !.maxOps = 0, !.deadline = 0]))

\* the host drops the Interpreter and makes a new one
Construct ==
  /\ runs > 0
  /\ variables' = EmptyMap
  /\ closures' = <<>>
  /\ output' = <<>>
  /\ opCount' = 0
  /\ maxOps' = 0
  /\ deadline' = 0
  /\ runs' = 0
  /\ last' = NoRun
  /\ now' = 1
  /\ UNCHANGED <<cacheVars, execVars>>

\* one Interpreter per program, as execute() uses it: configured, then run once
InterpNext ==
  \/ \E value \in HostValues : runs = 0 /\ setVariable("n", value)
  \/ \E quota \in 0..DeepQuota : runs = 0 /\ setMaxOperations(quota)
  \/ \E time \in 0..DeepDeadline : runs = 0 /\ setDeadline(time)
  \/ \E program \in Programs, rate \in {0, 1} : runs = 0 /\ Run(program, rate)
  \/ Construct

SpecInterp == InterpInit /\ [][InterpNext]_vars

\* one Interpreter used again and again, for MaxRuns runs
ReuseNext ==
  \/ \E quota \in 0..MaxQuota : setMaxOperations(quota)
  \/ \E time \in 0..MaxDeadline : setDeadline(time)
  \/ Tick
  \/ \E program \in ShortPrograms, rate \in {0, 1} : runs < MaxRuns /\ Run(program, rate)

SpecReuse == InterpInit /\ [][ReuseNext]_vars

(***************************************************************************)
(* KodiScriptBuilder.execute() (index.ts) over defaultCache.  A builder is *)
(* the record of its fields source, variables, useCache, maxOps, timeout.  *)
(***************************************************************************)
DefaultCapacity == 1000

\* the builders execute() is called on: with no limit, a quota or a timeout
\* source texts with the words for, in and fn:  for (n in x) {}   fn(a, b) {}
ReservedSources ==
  { <<"f", "o", "r", " ", "(", "n", " ", "i", "n", " ", "x", ")", " ", "{", "}">>,
    <<"f", "n", "(", "a", ",", " ", "b", ")", " ", "{", "}">> }

\* the builders: the texts of ReservedSources are executed without cache
Builders ==
  { b \in [source : ExecSources, variables : {EmptyMap}, useCache : BOOLEAN,
           maxOps : {0, MaxQuota}, timeout : {0, MaxDeadline}] :
      b.maxOps = 0 \/ b.timeout = 0 }
  \cup [source : ReservedSources, variables : {EmptyMap}, useCache : {FALSE},
        maxOps : {0}, timeout : {0}]

\* the time a node evaluation may take; it shows only where a deadline is set
Rates(builder) == IF builder.timeout > 0 THEN {0, 1} ELSE {0}

ExecInit ==
  /\ capacity = DefaultCapacity
  /\ cache = <<>>
  /\ recency = <<>>
  /\ live = [s \in Sources |-> Undefined]
  /\ lastOp = [op |-> "none", source |-> <<>>, ret |-> Undefined, evicted |-> <<>>,
               afterSet |-> FALSE, replaced |-> <<>>, sizeBefore |-> 0]
  /\ NewFields

\* new Parser(tokens).parse(), if tokenize() gave tokens
Parsing(tokens) == IF tokens.err # "" THEN ParseError(tokens.err) ELSE parse(tokens.tokens)

\* new Lexer(source).tokenize(), then new Parser(tokens).parse()
LexAndParse(source) == Parsing(tokenize(source))

\* the Interpreter execute() makes and configures; each node evaluation takes
\* rate units of time
ExecInterpreter(builder, rate) ==
  [NewInterpreter EXCEPT !.variables = MapSetAll(EmptyMap, builder.variables),
                         !.maxOps = builder.maxOps,
                         !.opCount = 0,
                         !.deadline = IF builder.timeout > 0 THEN now + builder.timeout
                                      ELSE 0,
                         !.now = now,
                         !.rate = rate]

\* a catch that hands on what the run had printed before it failed
ScriptResult_Partial(r) ==
  IF r.k = "throw" THEN [output |-> r.output, value |-> VNull, errors |-> <<r.err>>]
  ELSE [output |-> r.output, value |-> r.v, errors |-> <<>>]

\* try { run } catch (e) { ... }: the ScriptResult of a run that ended as r
ScriptResult(r) ==
  IF r.k = "throw" THEN [output |-> <<>>, value |-> VNull, errors |-> <<r.err>>]
  ELSE [output |-> r.output, value |-> r.v, errors |-> <<>>]

\* execute() returned the ScriptResult of a run that ended as r; failed and
\* printed keep how the run ended and what the Interpreter had printed in it,
\* touched whether the call changed the entries of the cache or their order
Returned(builder, hit, r) ==
  executed' = [k |-> "returned", source |-> builder.source, useCache |-> builder.useCache,
               hit |-> hit,
               output |-> ScriptResult(r).output, value |-> ScriptResult(r).value,
               errors |-> ScriptResult(r).errors, thrown |-> "",
               failed |-> r.k = "throw", printed |-> r.output,
               touched |-> <<cache', recency'>> # <<cache, recency>>]

\* execute() threw an Error with this message
Propagated(builder, message) ==
  executed' = [k |-> "thrown", source |-> builder.source, useCache |-> builder.useCache,
               hit |-> FALSE,
               output |-> <<>>, value |-> VNull, errors |-> <<>>, thrown |-> message,
               failed |-> FALSE, printed |-> <<>>,
               touched |-> <<cache', recency'>> # <<cache, recency>>]

\* a lookup made whether the builder uses the cache or not
CacheLookup_Always(builder) == ASTCache_get(cache, builder.source)

\* let ast = this._useCache ? defaultCache.get(this.source) : undefined
CacheLookup(builder) ==
  IF builder.useCache THEN ASTCache_get(cache, builder.source)
  ELSE [entries |-> cache, ret |-> Undefined]

\* execute(), got being what the cache lookup gave and parsed what lexing and
\* parsing the source gives
\* an execute() that stores what the parser gave before it looks at it
Executing_StoresFirst(builder, rate, got, parsed) ==
  IF got.ret # Undefined
  THEN /\ Got(builder.source, got)
       /\ Returned(builder, TRUE, run(got.ret, ExecInterpreter(builder, rate)))
  ELSE /\ IF builder.useCache
          THEN DidSet(builder.source, parsed.node,
                      ASTCache_set(got.entries, capacity, builder.source, parsed.node))
          ELSE UNCHANGED cacheVars
       /\ IF parsed.err # "" THEN Propagated(builder, parsed.err)
          ELSE Returned(builder, FALSE, run(parsed.node, ExecInterpreter(builder, rate)))

Executing(builder, rate, got, parsed) ==
  IF got.ret # Undefined
  THEN /\ Got(builder.source, got)
       /\ Returned(builder, TRUE, run(got.ret, ExecInterpreter(builder, rate)))
  ELSE IF parsed.err # ""
  THEN /\ IF builder.useCache THEN Got(builder.source, got) ELSE UNCHANGED cacheVars
       /\ Propagated(builder, parsed.err)
  ELSE /\ IF builder.useCache
          THEN DidSet(builder.source, parsed.node,
                      ASTCache_set(got.entries, capacity, builder.source, parsed.node))
          ELSE UNCHANGED cacheVars
       /\ Returned(builder, FALSE, run(parsed.node, ExecInterpreter(builder, rate)))

\* KodiScriptBuilder.execute.  The deadline is set from the clock at the call, so
\* only the time that passes within the run matters, and the clock is left as
\* it was.
Execute(builder, rate) ==
  /\ Executing(builder, rate, CacheLookup(builder), LexAndParse(builder.source))
  /\ UNCHANGED interpVars

\* defaultCache.clear()
ClearDefault ==
  /\ cache # <<>>
  /\ Clear

ExecNext ==
  \/ \E builder \in Builders : \E rate \in Rates(builder) : Execute(builder, rate)
  \/ ClearDefault

SpecExec == ExecInit /\ [][ExecNext]_vars


(***************************************************************************)
(* Claims about the cache, checked under SpecCache.                        *)
(***************************************************************************)

\* C1: a get(S) that returns a Program returns one that a set(S, P) with exactly
\* the source text S stored (the last such P), never the Program of another
\* source text, also when that text has the same hash key.
C1_GetReturnsOwnSource ==
  (lastOp.op = "get" /\ lastOp.ret # Undefined)
    => /\ live[lastOp.source] # Undefined
       /\ lastOp.ret = live[lastOp.source]

\* a lookup that found its key held by another source text, and returned nothing
C1_Witness ==
  /\ lastOp.op = "get"
  /\ lastOp.ret = Undefined
  /\ HasKey(cache, Hash(lastOp.source))
  /\ EntryOf(cache, Hash(lastOp.source)).source # lastOp.source

\* C2: get(S) returns P from the set(S, P) on, for as long as the entry was not
\* evicted, replaced by a set under the same key, or cleared.
C2_GetAfterSet ==
  (lastOp.op = "get" /\ live[lastOp.source] # Undefined)
    => lastOp.ret = live[lastOp.source]

\* a get(S) right after set(S, P) that returned a Program
C2_Witness == lastOp.op = "get" /\ lastOp.afterSet /\ lastOp.ret # Undefined

\* C3: a set of a new key into a full cache (one that holds entries, and as many
\* as its capacity or more) evicts exactly one entry, the one whose last
\* successful get or set is the oldest.
C3_EvictsLeastRecentlyUsed ==
  [][(/\ lastOp'.op = "set"
      /\ ~HasKey(cache, Hash(lastOp'.source))
      /\ Len(cache) >= capacity
      /\ cache # <<>>)
     => /\ lastOp'.evicted = <<Head(recency)>>
        /\ Len(cache') = Len(cache)
        /\ ~HasKey(cache', Head(recency))]_vars

\* an eviction from a cache of two entries, of which the older insertion stays
C3_Witness ==
  /\ lastOp.op = "set"
  /\ lastOp.evicted # <<>>
  /\ Len(cache) = 2
  /\ Len(recency) = 2

\* C4: size() is at most the capacity the cache was constructed with.
C4_SizeWithinCapacity == ASTCache_size(cache) <= capacity

\* C27: a get that misses, for want of an entry under the key or because the
\* entry is of another source text, leaves the cache as it was: the same
\* entries in the same order, the same size.
C27_MissLeavesCacheUnchanged ==
  [][(lastOp'.op = "get" /\ lastOp'.ret = Undefined)
       => /\ cache' = cache
          /\ ASTCache_size(cache') = ASTCache_size(cache)
          /\ recency' = recency
          /\ live' = live]_vars

\* a lookup has collided with the least recently used of two entries, which is
\* still there and still the least recently used
C27_Witness ==
  /\ lastOp.op = "get" /\ lastOp.ret = Undefined
  /\ Len(cache) = 2
  /\ cache[1].key = Hash(lastOp.source)
  /\ cache[1].source # lastOp.source
  /\ live[cache[1].source] = cache[1].program
  /\ recency[1] = cache[1].key

\* C25: a set(S, P) on a cache that holds an entry under the key of S replaces
\* that entry and evicts no other, full or not: the size stays, the other
\* entries stay in their order, the new entry is the most recently used; if
\* the entry replaced was of another text S', get(S') now misses and get(S)
\* returns P.
C25_SetReplacesSameKey ==
  [][(lastOp'.op = "set" /\ HasKey(cache, Hash(lastOp'.source)))
       => /\ lastOp'.evicted = <<>>
          /\ ASTCache_size(cache') = ASTCache_size(cache)
          /\ Without(cache', Hash(lastOp'.source)) = Without(cache, Hash(lastOp'.source))
          /\ cache'[Len(cache')] = [key |-> Hash(lastOp'.source),
                                    source |-> lastOp'.source,
                                    program |-> live'[lastOp'.source]]
          /\ recency'[Len(recency')] = Hash(lastOp'.source)
          /\ ASTCache_get(cache', lastOp'.source).ret = live'[lastOp'.source]
          /\ \A other \in CacheSources \ {lastOp'.source} :
                EntryOf(cache, Hash(lastOp'.source)).source = other
                  => ASTCache_get(cache', other).ret = Undefined]_vars

\* a full cache of two entries in which a set has replaced the entry of a
\* colliding text and evicted nothing
C25_Witness ==
  /\ lastOp.op = "set"
  /\ lastOp.replaced # <<>> /\ lastOp.replaced # lastOp.source
  /\ lastOp.sizeBefore = capacity /\ capacity = MaxCapacity
  /\ lastOp.evicted = <<>>
  /\ Len(cache) = MaxCapacity
  /\ live[lastOp.replaced] = Undefined
  /\ cache[Len(cache)].source = lastOp.source

(***************************************************************************)
(* Claims about the limits, checked under SpecReuse.                       *)
(***************************************************************************)
\* a run has been made
HasRun == last.k # "none"

\* the last run began with a deadline set and already passed
Late == last.deadline > 0 /\ last.nowBefore > last.deadline

\* C5, as stated: with a quota N > 0 a run fails with 'max operations exceeded'
\* when its program needs more than N node evaluations, and does not fail so when
\* the program needs at most N.
C5_QuotaPerRun ==
  (HasRun /\ last.maxOps > 0)
    => /\ last.needed > last.maxOps => last.err = LimitsExceededError
       /\ last.needed <= last.maxOps => last.err # LimitsExceededError

\* C5, amended: the quota N > 0 counts the node evaluations made since it was
\* assigned, those of earlier runs included.  Let a run begin with c of them made
\* and its program need m.  The run fails with 'max operations exceeded' only if
\* m > 0 and c + m > N, and then at evaluation max(N - c, 0) + 1 of the run; and
\* if m > 0 and c + m > N the run fails, with 'max operations exceeded' unless
\* 'execution timeout' comes first.
C5_QuotaSinceAssigned ==
  (HasRun /\ last.maxOps > 0)
    => /\ last.err = LimitsExceededError
            => /\ last.needed > 0
               /\ last.opBefore + last.needed > last.maxOps
               /\ last.evals = IF last.opBefore >= last.maxOps THEN 1
                               ELSE last.maxOps - last.opBefore + 1
       /\ (last.needed > 0 /\ last.opBefore + last.needed > last.maxOps)
            => /\ last.k = "throw"
               /\ last.err \in {LimitsExceededError, TimeoutError}

\* a second run fails on the quota though its program needs no more than N
C5_Witness ==
  /\ HasRun /\ last.maxOps > 0 /\ last.opBefore > 0
  /\ last.needed <= last.maxOps
  /\ last.err = LimitsExceededError

\* C6, as stated: a run that begins after the deadline fails with 'execution
\* timeout' at its first node evaluation, with no output and no variable bound.
C6_PastDeadlineTimesOut ==
  (HasRun /\ Late)
    => /\ last.k = "throw" /\ last.err = TimeoutError /\ last.evals = 1
       /\ last.output = <<>>
       /\ last.after = last.before

\* C6, amended: a run that begins after the deadline produces no output and binds
\* no variable.  If the program has a statement, the run fails at its first node
\* evaluation: with 'max operations exceeded' if the quota is used up already,
\* with 'execution timeout' otherwise.  A program with no statement completes.
C6_PastDeadline ==
  (HasRun /\ Late)
    => /\ last.output = <<>>
       /\ last.after = last.before
       /\ last.program.statements = <<>> => last.k = "ok" /\ last.evals = 0
       /\ last.program.statements # <<>>
            => /\ last.k = "throw" /\ last.evals = 1
               /\ last.err = IF last.maxOps > 0 /\ last.opBefore >= last.maxOps
                             THEN LimitsExceededError ELSE TimeoutError

\* a program that prints, run after the deadline: timeout, nothing printed
C6_Witness ==
  /\ HasRun /\ Late
  /\ last.program.statements # <<>> /\ last.needed > 1
  /\ last.err = TimeoutError /\ last.evals = 1

(***************************************************************************)
(* Claims about scopes, checked under SpecInterp.                          *)
(***************************************************************************)
\* the events of the last run of the given kind, by position
EventsOf(kind) == {i \in 1..Len(last.events) : last.events[i].kind = kind}

\* C7: a FunctionValue holds every variable bound when its literal was evaluated,
\* with the value it had then; and when the function is applied, every name it
\* holds that is not one of its parameters has the held value as the body begins,
\* whatever the live environment gave that name since.
C7_ClosureCapturesAtCreation ==
  /\ \A i \in EventsOf("create") : last.events[i].closure = last.events[i].env
  /\ \A i \in EventsOf("apply") :
       LET e == last.events[i] IN
       /\ \E j \in EventsOf("create") :
            j < i /\ last.events[j].closure = e.closure
       /\ \A name \in (DOMAIN e.closure) \ e.parameters :
            name \in DOMAIN e.entry /\ e.entry[name] = e.closure[name]

\* let a = 1; let f = fn(x) { return a }; a = 5; print(f(3)); print(a) prints 1, 5
C7_Witness ==
  /\ last.output = <<"1", "5">>
  /\ \E i \in EventsOf("apply") :
       LET e == last.events[i] IN
       /\ "a" \in DOMAIN e.closure /\ "a" \notin e.parameters
       /\ e.closure["a"] = VNum(1) /\ e.before["a"] = VNum(5)
       /\ e.entry["a"] = VNum(1)

\* C8: after a function application, however it ended, the variables are the ones
\* bound just before the closure was copied in, with the values they had then.
C8_ApplyRestoresScope ==
  \A i \in EventsOf("apply") : last.events[i].after = last.events[i].before

\* an application ended by an error after its body had changed the variables
C8_Witness ==
  \E i \in EventsOf("apply") :
    /\ last.events[i].how = "throw"
    /\ last.events[i].exit # last.events[i].before
    /\ last.events[i].after = last.events[i].before

\* C9: after a for-loop, however it ended, the loop variable is bound to the value
\* it had before the loop if it was bound before the loop, whatever the value, and
\* is not bound if it was not.
C9_LoopVariableRestored ==
  \A i \in EventsOf("for") :
    LET e == last.events[i] IN
    IF e.had THEN /\ e.name \in DOMAIN e.after
                  /\ e.after[e.name] = e.before[e.name]
    ELSE e.name \notin DOMAIN e.after

Applications(events) == {i \in 1..Len(events) : events[i].kind = "apply"}

\* the last run ended as the run r of the program without return statements
\* does: same output, same value, as many applications; and each application
\* was ended by the return in its body, those of f and of the callbacks
ReturnedAs(r, returning) ==
  /\ last.k = "ok" /\ r.k = "ok"
  /\ last.output = r.output
  /\ last.result = r.v
  /\ Cardinality(EventsOf("apply")) = Cardinality(Applications(r.events))
  /\ Cardinality({i \in EventsOf("apply") : last.events[i].how = "return"}) = returning

\* C19: in a run with no limit set, a return statement in a function body, at
\* whatever depth of if, block and for-loop, ends the application of that function
\* and nothing else: the call gives the returned value, the caller goes on, a
\* callback of map, filter, reduce, find or findIndex is called for the next
\* item.  The run is, in output and value, the run of the same program with the
\* returned expression as the last statement of the body.
C19_ReturnEndsNearestFunction ==
  (HasRun /\ last.maxOps = 0 /\ last.deadline = 0)
    => \A d \in Depths \ {"none"}, v \in Returned_Values :
         /\ last.program = FunctionProgram(d, v)
              => ReturnedAs(run(FunctionProgram("none", v),
                                [NewInterpreter EXCEPT !.variables = last.before]), 1)
         /\ \A n \in HigherOrderNames :
              last.program = CallbackProgram(n, d, v)
                => ReturnedAs(run(CallbackProgram(n, "none", v),
                                  [NewInterpreter EXCEPT !.variables = last.before]),
                              Cardinality(EventsOf("apply")))

\* map([1, 2], fn(x) { for .. { if .. { { return x } } print(99) } print(99) }) has
\* given [1, 2], and the run has gone on
C19_Witness ==
  /\ HasRun /\ last.k = "ok"
  /\ last.program = CallbackProgram("map", "deep", Identifier("x"))
  /\ last.output = <<"[1,2]", "1">>
  /\ Cardinality({i \in EventsOf("apply") : last.events[i].how = "return"}) = 2

\* C20: a run in which checkLimits failed ends with that failure, raised once and
\* at the last node evaluation of the run; and every function application and
\* every for-loop the failure went through has left the variables as it does
\* when it ends otherwise: the application as they were before it, the loop
\* with its variable given back its value, or removed.
C20_LimitFailureTerminal ==
  (HasRun /\ last.raised # <<>>)
    => /\ last.k = "throw"
       /\ last.err \in {LimitsExceededError, TimeoutError}
       /\ last.raised = <<last.evals>>
       /\ \A i \in EventsOf("apply") :
            last.events[i].how = "throw" => last.events[i].after = last.events[i].before
       /\ \A i \in EventsOf("for") :
            LET e == last.events[i] IN
            e.how = "throw"
              => IF e.had /\ e.before[e.name] # VUndefined
                 THEN e.after = MapSet(e.exit, e.name, e.before[e.name])
                 ELSE e.after = MapDelete(e.exit, e.name)

\* the quota was exceeded in a for-loop in a callback of map, both of which had
\* bound their names
C20_Witness ==
  /\ HasRun /\ last.err = LimitsExceededError /\ last.raised = <<DeepQuota + 1>>
  /\ \E i \in EventsOf("apply") : \E j \in EventsOf("for") :
       /\ j < i
       /\ last.events[i].how = "throw" /\ last.events[j].how = "throw"
       /\ "x" \in DOMAIN last.events[i].exit /\ "x" \notin DOMAIN last.events[i].after
       /\ "i" \in DOMAIN last.events[j].exit /\ "i" \notin DOMAIN last.events[j].after

\* the statements of the last program that are return statements
TopReturns ==
  {i \in 1..Len(last.program.statements) :
     last.program.statements[i].type = "ReturnStatement"}

FirstReturn == CHOOSE i \in TopReturns : \A j \in TopReturns : i <= j

\* the last program cut before its first top-level return, the returned
\* expression put in the return's place as a statement
UpToReturn ==
  Program(SubSeq(last.program.statements, 1, FirstReturn - 1)
            \o (IF last.program.statements[FirstReturn].value = NullNode THEN <<>>
                ELSE <<ExpressionStatement(last.program.statements[FirstReturn].value)>>))

\* the last run ended as the run r of the statements up to the return does, the
\* evaluation of a return without expression counted
EndedAs(r) ==
  r.k = "ok"
    => /\ last.k = "ok"
       /\ last.output = r.output
       /\ last.after = r.variables
       /\ IF last.program.statements[FirstReturn].value = NullNode
          THEN last.result = VNull /\ last.evals = r.evals + 1
          ELSE last.result = r.v /\ last.evals = r.evals

\* C12: a run with no limit set whose program has a return statement at the top
\* level, reached without error, ends successfully there: its value is the value
\* of the returned expression (null if there is none), its output the lines
\* printed up to there, and nothing after the return is evaluated.
C12_TopLevelReturn ==
  (HasRun /\ last.maxOps = 0 /\ last.deadline = 0 /\ TopReturns # {})
    => EndedAs(run(UpToReturn, [NewInterpreter EXCEPT !.variables = last.before]))

\* print(1); return 7; print(2) has ended with the value 7 and the output "1"
C12_Witness ==
  /\ HasRun /\ TopReturns # {} /\ last.k = "ok"
  /\ last.result = VNum(7)
  /\ last.output = <<"1">>

\* the last program is a single elvis expression
IsElvis ==
  /\ Len(last.program.statements) = 1
  /\ last.program.statements[1].type = "ExpressionStatement"
  /\ last.program.statements[1].expression.type = "ElvisExpr"

ElvisOf == last.program.statements[1].expression

\* the last run against the run l of the left operand alone and the run both
\* of the left operand followed by the right one
ElvisAs(l, both) ==
  l.k = "ok"
    => IF l.v.t \in {"null", "undefined"}
       THEN /\ last.k = both.k
            /\ last.result = both.v
            /\ last.output = both.output
            /\ last.evals = both.evals
       ELSE /\ last.k = "ok"
            /\ last.result = l.v
            /\ last.output = l.output
            /\ last.after = l.variables
            /\ last.evals = l.evals + 1

\* C13: in a run with no limit set, L ?: R evaluates R exactly when L gave null
\* or undefined; otherwise its value is the value of L, falsy or not, and the
\* run prints, binds and counts what the evaluation of L alone does (and one
\* evaluation for the elvis node).
C13_ElvisRightIffNull ==
  (HasRun /\ last.maxOps = 0 /\ last.deadline = 0 /\ IsElvis)
    => ElvisAs(run(Program(<<ExpressionStatement(ElvisOf.left)>>),
                   [NewInterpreter EXCEPT !.variables = last.before]),
               run(Program(<<ExpressionStatement(ElvisOf.left),
                             ExpressionStatement(ElvisOf.right)>>),
                   [NewInterpreter EXCEPT !.variables = last.before]))

\* 0 ?: sideEffect() has given 0 and printed nothing
C13_Witness ==
  /\ HasRun /\ IsElvis /\ last.k = "ok"
  /\ ElvisOf.left = NumberLiteral(0)
  /\ last.result = VNum(0)
  /\ last.output = <<>>

\* C14, as stated: null ?: sideEffect() does not perform the call of sideEffect.
C14_NullElvisSkipsRight ==
  (HasRun /\ IsElvis /\ ElvisOf.left = NullLiteral) => last.output = <<>>

\* C14, amended: null ?: sideEffect() performs the call of sideEffect: a run of
\* it that does not fail has printed what sideEffect prints, and its value is
\* the value of the call.
C14_NullElvisEvaluatesRight ==
  (HasRun /\ IsElvis /\ ElvisOf.left = NullLiteral /\ last.k = "ok")
    => last.output = <<"9">> /\ last.result = VNull

\* null ?: sideEffect() has run without error
C14_Witness ==
  /\ HasRun /\ IsElvis /\ ElvisOf.left = NullLiteral /\ ElvisOf.right = SideEffect
  /\ last.k = "ok"
  /\ last.output # <<>>

\* the last program is a single binary expression
IsBinary ==
  /\ Len(last.program.statements) = 1
  /\ last.program.statements[1].type = "ExpressionStatement"
  /\ last.program.statements[1].expression.type = "BinaryExpr"

BinaryOf == last.program.statements[1].expression

\* the last run printed, bound and counted what the run both of the two
\* operands, one after the other, does
BinaryAs(both) ==
  /\ last.k = both.k
  /\ last.output = both.output
  /\ last.after = both.variables
  /\ last.evals = both.evals

\* C15: in a run with no limit set, L op R evaluates L and then R, whatever the
\* operator and the value of L: the run prints and counts what the evaluation of
\* L followed by that of R does.
C15_BinaryEvaluatesBoth ==
  (HasRun /\ last.maxOps = 0 /\ last.deadline = 0 /\ IsBinary)
    => BinaryAs(run(Program(<<ExpressionStatement(BinaryOf.left),
                              ExpressionStatement(BinaryOf.right)>>),
                    [NewInterpreter EXCEPT !.variables = last.before]))

\* false && sideEffect() has given false and printed what sideEffect prints
C15_Witness ==
  /\ HasRun /\ IsBinary /\ last.k = "ok"
  /\ BinaryOf = BinaryExpr("&&", BooleanLiteral(FALSE), SideEffect)
  /\ last.result = VBool(FALSE)
  /\ last.output = <<"9">>

\* the last program is a single assignment
IsAssign ==
  /\ Len(last.program.statements) = 1
  /\ last.program.statements[1].type = "AssignmentStatement"

\* the last program is a single identifier
IsRead ==
  /\ Len(last.program.statements) = 1
  /\ last.program.statements[1].type = "ExpressionStatement"
  /\ last.program.statements[1].expression.type = "Identifier"

\* C16: a run of NAME = expr where NAME has no binding fails (with "Variable
\* 'NAME' not defined" when no limit is set) and leaves NAME without binding; a
\* run of NAME alone, NAME neither bound nor a registered function, does not
\* fail when no limit is set and gives null.
C16_AssignUnboundFails ==
  /\ (HasRun /\ IsAssign /\ ~Has(last.before, last.program.statements[1].name))
       => /\ last.k = "throw"
          /\ ~Has(last.after, last.program.statements[1].name)
          /\ (last.maxOps = 0 /\ last.deadline = 0)
               => last.err = "Variable '" \o last.program.statements[1].name
                               \o "' not defined"
  /\ (HasRun /\ IsRead /\ last.maxOps = 0 /\ last.deadline = 0
        /\ ~Has(last.before, last.program.statements[1].expression.name)
        /\ last.program.statements[1].expression.name \notin NativeNames)
       => last.k = "ok" /\ last.result = VNull /\ last.after = last.before

\* u = sideEffect() has failed on the assignment, after the call
C16_Witness ==
  /\ HasRun /\ IsAssign
  /\ last.program.statements[1].name = "u"
  /\ last.err = "Variable 'u' not defined"
  /\ last.output = <<"9">>
  /\ ~Has(last.after, "u")

\* C21: a run adds to the operation counter the number of its node evaluations
\* when a quota is set, and nothing otherwise, whatever the counter was; the
\* assignment of a quota sets the counter to 0; and no other step makes the
\* counter smaller.
C21_CounterResetOnlyOnAssign ==
  [][/\ runs' = runs + 1
          => opCount' = opCount + (IF maxOps > 0 THEN last'.evals ELSE 0)
     /\ maxOps' # maxOps => opCount' = 0
     /\ opCount' < opCount
          => /\ opCount' = 0
             /\ UNCHANGED <<variables, closures, output, deadline, now, runs, last>>]_vars

\* a second run under one quota has counted on from where the first one stopped
C21_Witness ==
  /\ runs = 2 /\ last.maxOps > 0
  /\ last.opBefore > 0 /\ last.evals > 0
  /\ opCount = last.opBefore + last.evals

\* the last run, of recv?.name, against the run recv of the receiver alone and
\* the run plain of recv.name: the same end, value and output unless the
\* receiver is null or undefined
SafeAs(recv, plain) ==
  (recv.k = "ok" /\ recv.v.t \notin {"null", "undefined"})
    => /\ last.k = plain.k
       /\ last.err = plain.err
       /\ last.result = plain.v
       /\ last.output = plain.output

\* C22, as stated: in a run with no limit set, recv?.name gives what recv.name
\* gives whenever recv is neither null nor undefined, a method bound to recv
\* included, so that calling it gives the same too.
C22_SafeMemberSameLookup ==
  (HasRun /\ last.maxOps = 0 /\ last.deadline = 0)
    => \A r \in Receivers, n \in PropertyNames, c \in BOOLEAN :
         last.program = MemberProgram(TRUE, r, n, c)
           => SafeAs(run(Program(<<ExpressionStatement(r)>>),
                         [NewInterpreter EXCEPT !.variables = last.before]),
                     run(MemberProgram(FALSE, r, n, c),
                         [NewInterpreter EXCEPT !.variables = last.before]))

\* what the Recorder yields for its first two arguments
ResultOf(r, a, b) ==
  CASE r = "gt1" -> VBool(a.t = "num" /\ a.v > 1)
    [] r = "first" -> a
    [] r = "second" -> b
    [] r = "none" -> VNull

RECURSIVE Accumulated(_, _, _, _)
\* the accumulator reduce hands to its i-th application
Accumulated(r, items, initial, i) ==
  IF i = 1 THEN (IF initial = <<>> THEN VNull ELSE VNum(initial[1]))
  ELSE ResultOf(r, Accumulated(r, items, initial, i - 1), VNum(items[i - 1]))

\* the arguments of the i-th application of the callback
ArgumentsOf(name, items, r, initial, i) ==
  IF name = "reduce"
  THEN <<Accumulated(r, items, initial, i), VNum(items[i]), VNum(i - 1)>>
  ELSE <<VNum(items[i]), VNum(i - 1), VNull>>

\* the positions of the elements for which the callback gives a truthy result
Accepted(r, items) ==
  {i \in 1..Len(items) : isTruthy(ResultOf(r, VNum(items[i]), VNum(i - 1)))}

FirstOf(S) == CHOOSE x \in S : \A y \in S : x <= y

\* the value of the call
ValueOf(name, items, r, initial) ==
  CASE name = "map" ->
         VArr([i \in 1..Len(items) |-> ResultOf(r, VNum(items[i]), VNum(i - 1))])
    [] name = "filter" ->
         LET kept == SelectSeq([i \in 1..Len(items) |-> i],
                               LAMBDA i : i \in Accepted(r, items))
         IN  VArr([j \in 1..Len(kept) |-> VNum(items[kept[j]])])
    [] name = "reduce" -> Accumulated(r, items, initial, Len(items) + 1)
    [] name = "find" ->
         IF Accepted(r, items) = {} THEN VNull
         ELSE VNum(items[FirstOf(Accepted(r, items))])
    [] name = "findIndex" ->
         IF Accepted(r, items) = {} THEN VNum(-1)
         ELSE VNum(FirstOf(Accepted(r, items)) - 1)

\* the last run was count applications of the Recorder, the i-th with the
\* arguments of the i-th element; it gave the value of the call and left the
\* environment as it was
AppliedAs(name, items, r, initial, count) ==
  /\ last.k = "ok"
  /\ Cardinality(Applications(last.events)) = count
  /\ \A e \in Applications(last.events) : last.events[e].before = last.before
  /\ last.output = [j \in 1..(3 * count) |->
                      JSString(ArgumentsOf(name, items, r, initial,
                                           ((j - 1) \div 3) + 1)[((j - 1) % 3) + 1])]
  /\ last.result = ValueOf(name, items, r, initial)
  /\ last.after = last.before

\* the applications find and findIndex need: up to the first element accepted
Needed(name, items, r) ==
  IF name \in {"find", "findIndex"} /\ Accepted(r, items) # {}
  THEN FirstOf(Accepted(r, items))
  ELSE Len(items)

\* C23, as stated: map, filter, find, findIndex and reduce apply the callback
\* once per element, in index order, to (element, index) or (accumulator,
\* element, index); the accumulator starts at null without an initial value,
\* find gives null and findIndex -1 when nothing is accepted, and the
\* environment after the call is the environment before it.
C23_OncePerElement ==
  (HasRun /\ last.maxOps = 0 /\ last.deadline = 0)
    => \A name \in HigherOrderNames, items \in Arrays, r \in Results, initial \in Initials :
         last.program = RecorderProgram(name, items, r, initial)
           => AppliedAs(name, items, r, initial, Len(items))

\* C23, amended: as above, but find and findIndex apply the callback to the
\* elements up to the first one accepted, and to no element after it.
C23_AppliedInIndexOrder ==
  (HasRun /\ last.maxOps = 0 /\ last.deadline = 0)
    => \A name \in HigherOrderNames, items \in Arrays, r \in Results, initial \in Initials :
         last.program = RecorderProgram(name, items, r, initial)
           => AppliedAs(name, items, r, initial, Needed(name, items, r))

\* find([2, 0], fn(a, b, c) {.. a > 1 }) has applied the callback to 2 only
C23_Witness ==
  /\ HasRun /\ last.maxOps = 0 /\ last.deadline = 0
  /\ last.program = RecorderProgram("find", <<2, 0>>, "gt1", <<>>)
  /\ last.output = <<"2", "0", "null">>
  /\ last.result = VNum(2)
  /\ last.after = last.before

\* C24: lexed and then parsed, for (NAME in expr) {..} is a ForStatement and
\* fn(a, b) {..} a FunctionLiteral: the lexer gives the words for, in and fn as
\* identifiers and the parser knows them by their text.
C24_ReservedWordsParsed ==
  /\ executed.k # "none" /\ Text(executed.source) = "for (n in x) {}"
       => /\ \A i \in 1..Len(tokenize(executed.source).tokens) :
               tokenize(executed.source).tokens[i].value \in {"for", "in"}
                 => tokenize(executed.source).tokens[i].type = "IDENTIFIER"
          /\ LexAndParse(executed.source).err = ""
          /\ LexAndParse(executed.source).node
               = Program(<<ForStatement(Identifier("n"), Identifier("x"),
                                        BlockStatement(<<>>))>>)
  /\ executed.k # "none" /\ Text(executed.source) = "fn(a, b) {}"
       => /\ tokenize(executed.source).tokens[1].type = "IDENTIFIER"
          /\ LexAndParse(executed.source).err = ""
          /\ LexAndParse(executed.source).node
               = Program(<<ExpressionStatement(
                             FunctionLiteral(<<Identifier("a"), Identifier("b")>>,
                                             BlockStatement(<<>>)))>>)

\* C26: there are no nested scopes.  A name bound by let in a branch of an
\* if, in a block or in the body of a for-loop at the top level is bound to
\* its last value when the statement after it runs and at the end of the
\* run; of the bindings made in a for-loop only that of its iteration
\* variable is undone.
C26_NoNestedScopes ==
  (HasRun /\ last.maxOps = 0 /\ last.deadline = 0)
    => \A block \in Blocks, name \in LetNames :
         last.program = BlockProgram(block, name)
           => /\ last.k = "ok"
              /\ last.output = <<"2">>
              /\ last.after = MapSet(last.before, name, VNum(2))
              /\ ~Has(last.after, "i")

\* for (i in [1, 2]) { let m = i }; print(m) has printed 2 and left m bound,
\* i unbound
C26_Witness ==
  /\ HasRun /\ last.maxOps = 0 /\ last.deadline = 0
  /\ last.program = BlockProgram("for", "m")
  /\ last.output = <<"2">>
  /\ MapGet(last.after, "m") = VNum(2)
  /\ ~Has(last.before, "m")
  /\ \E e \in 1..Len(last.events) :
       /\ last.events[e].kind = "for"
       /\ Has(last.events[e].exit, "i")

\* the last run, of a call of a name bound to a FunctionValue, ended as the
\* run plain of the call without that binding, and never applied the
\* FunctionValue, the first one the run created
ShadowAs(plain) ==
  /\ last.k = plain.k
  /\ last.err = plain.err
  /\ last.result = plain.v
  /\ last.output = plain.output
  /\ \A e \in Applications(last.events) : last.events[e].fn # 1
  /\ Cardinality(Applications(last.events)) = Cardinality(Applications(plain.events))

\* C28: where NAME is a registered function and also a variable that holds a
\* FunctionValue, NAME(args) calls the registered function and never the
\* FunctionValue, though NAME alone gives the variable's value; map, filter,
\* reduce, find and findIndex with an array and a FunctionValue are the
\* evaluator's own, whatever NAME is bound to.
C28_CallResolvesRegistryFirst ==
  (HasRun /\ last.maxOps = 0 /\ last.deadline = 0)
    => \A name \in CallNames :
         /\ last.program = ShadowProgram(name, TRUE, TRUE)
              => ShadowAs(run(ShadowProgram(name, FALSE, TRUE),
                              [NewInterpreter EXCEPT !.variables = last.before]))
         /\ last.program = ShadowProgram(name, TRUE, FALSE)
              => /\ last.k = "ok"
                 /\ last.result = MapGet(last.after, name)
                 /\ last.result.t = "fn" /\ last.result.closure = 1

\* let size = fn(a, b) { 7 }; size([1, 2], fn(x) { x }) has given 2
C28_Witness ==
  /\ HasRun /\ last.maxOps = 0 /\ last.deadline = 0
  /\ last.program = ShadowProgram("size", TRUE, TRUE)
  /\ MapGet(last.after, "size").t = "fn"
  /\ last.result = VNum(2)

RECURSIVE Factorial(_)
Factorial(k) == IF k <= 1 THEN 1 ELSE k * Factorial(k - 1)

\* C29: in a function body a name that is neither a parameter nor a key of
\* the captured environment is the caller's binding at the time of the call.
\* So a function bound by let can call itself, though the environment it
\* captured has no binding of its name, and when a recursive call has
\* returned the parameters are bound as the caller's own invocation bound
\* them.
C29_CallerBindingsVisible ==
  (HasRun /\ last.maxOps = 0 /\ last.deadline = 0)
    => /\ last.program = CallerProgram
            => /\ last.k = "ok"
               /\ last.output = <<"5", "3", "5">>
       /\ \A callFirst \in BOOLEAN, argument \in Arguments :
            last.program = RecursiveProgram(callFirst, argument)
              => /\ last.k = "ok"
                 /\ last.output = <<NumText(Factorial(argument))>>
                 /\ \A e \in Applications(last.events) :
                      /\ ~Has(last.events[e].closure, "factorial")
                      /\ Has(last.events[e].entry, "factorial")
                      /\ last.events[e].after = last.events[e].before
                 /\ MapGet(last.after, "n") = MapGet(last.before, "n")

\* factorial(3), written as factorial(n - 1) * n, has printed 6 after three
\* applications
C29_Witness ==
  /\ HasRun /\ last.maxOps = 0 /\ last.deadline = 0
  /\ last.program = RecursiveProgram(TRUE, 3)
  /\ last.output = <<"6">>
  /\ Cardinality(Applications(last.events)) = 3

(***************************************************************************)
(* Claims about execute(), checked under SpecExec.                         *)
(***************************************************************************)

\* C10: execute() never lets an Error reach its caller: whatever fails while the
\* source is lexed, parsed or evaluated, the call returns a ScriptResult, and
\* that ScriptResult has exactly one message in errors.
C10_ExecuteNeverPropagates ==
  executed.k # "none"
    => /\ executed.k = "returned"
       /\ Len(executed.errors) <= 1
       /\ LexAndParse(executed.source).err # "" => Len(executed.errors) = 1

\* C11: an execute() whose run failed returns no output (what was printed before
\* the failure is dropped), the value null and exactly one error message; one
\* whose run succeeded returns no error and, as output, the lines the run
\* printed, in the order it printed them.
C11_FailureDropsOutput ==
  executed.k = "returned"
    => IF executed.failed
       THEN /\ executed.output = <<>>
            /\ executed.value = VNull
            /\ Len(executed.errors) = 1
       ELSE /\ executed.errors = <<>>
            /\ executed.output = executed.printed

\* a run that had printed a line when it failed
C11_Witness ==
  /\ executed.k = "returned"
  /\ executed.failed
  /\ executed.printed # <<>>
  /\ executed.output = <<>>

\* C17: a call of execute() with the cache disabled takes no program from the
\* default cache and leaves its entries and their order as they were, whether
\* the call returns a result, with or without error, or throws.
C17_NoCacheUntouched ==
  (executed.k # "none" /\ ~executed.useCache)
    => ~executed.hit /\ ~executed.touched

\* a call with the cache disabled has returned while the cache holds the
\* program of its source
C17_Witness ==
  /\ executed.k = "returned" /\ ~executed.useCache
  /\ HasKey(cache, Keys[executed.source])


\* C30: whatever calls of execute() have been made, each entry of the default
\* cache holds a source text and the Program that lexing and parsing that
\* text gives: a text that fails to lex or to parse is not stored, and the
\* entry of a text whose evaluation has failed is there, unaltered, until the
\* cache is cleared.
C30_CacheHoldsParsedPrograms ==
  /\ \A i \in 1..Len(cache) :
       /\ cache[i].key = Hash(cache[i].source)
       /\ LexAndParse(cache[i].source).err = ""
       /\ cache[i].program = LexAndParse(cache[i].source).node
  /\ (executed.k = "thrown" /\ LexAndParse(executed.source).err # "")
       => \A i \in 1..Len(cache) : cache[i].source # executed.source
  /\ (executed.k = "returned" /\ executed.useCache /\ lastOp.op # "clear")
       => /\ HasKey(cache, Hash(executed.source))
          /\ EntryOf(cache, Hash(executed.source))
               = [key |-> Hash(executed.source), source |-> executed.source,
                  program |-> LexAndParse(executed.source).node]

\* an execute() with the cache has failed in evaluation, after a print, and the
\* text's entry is in the cache, with others
C30_Witness ==
  /\ executed.k = "returned" /\ executed.useCache /\ lastOp.op # "clear"
  /\ executed.failed /\ executed.printed # <<>>
  /\ HasKey(cache, Hash(executed.source))
  /\ Len(cache) > 1

====
